---- MODULE Spec2Model ----
(***************************************************************************)
(* Model of the password strength analysis engine                          *)
(* (src/password_strength_checker.py, class PasswordStrengthChecker).      *)
(*                                                                         *)
(* A Python str is modelled as the sequence of its Unicode code points.    *)
(* A Python float is modelled in fixed point: entropy and score are kept   *)
(* in millionths ("micro"), the rounded report fields in hundredths.       *)
(***************************************************************************)
EXTENDS Integers, Sequences, FiniteSets, TLC

(***************************************************************************)
(* Bounds of the model                                                     *)
(***************************************************************************)
\* longest generated password (all strings of the characters a and 1 up to this length)
MaxLen == 2
\* timestamps the clock can return are 0..MaxTime
MaxTime == 1
\* number of threads calling analyze concurrently in SpecConc
NumThreads == 2

(***************************************************************************)
(* State                                                                   *)
(***************************************************************************)
VARIABLES
    files,        \* the file system: path -> content
    checker,      \* the engine instance: the attributes __init__ sets
    last,         \* the caller's last analyze call: its password and outcome
    export,       \* the export_report call made on that outcome, and its outcome
    remembered,   \* an earlier analyze call on this instance (history)
    threads,      \* the analyze calls in progress, one per thread
    formatted     \* the last duration given to format_time, and its result

vars == <<files, checker, last, export, remembered, threads, formatted>>

(***************************************************************************)
(* Generic helpers on sequences                                            *)
(***************************************************************************)
Min(a, b) == IF a < b THEN a ELSE b
Max(a, b) == IF a > b THEN a ELSE b

\* s[i..j], empty when j < i
Slice(s, i, j) == [k \in 1..(j - i + 1) |-> s[i + k - 1]]

\* Python: sub in s
IsSubstring(sub, s) ==
    \E i \in 1..(Len(s) - Len(sub) + 1) : Slice(s, i, i + Len(sub) - 1) = sub

\* Python: s[::-1]
Reverse(s) == [i \in 1..Len(s) |-> s[Len(s) + 1 - i]]

\* Python: s * n
Repeat(s, n) == [i \in 1..(n * Len(s)) |-> s[((i - 1) % Len(s)) + 1]]

\* all sequences over S of length exactly n / at most n
RECURSIVE SeqsOfLen(_, _)
SeqsOfLen(S, n) ==
    IF n = 0 THEN {<<>>}
    ELSE {Append(s, c) : s \in SeqsOfLen(S, n - 1), c \in S}
SeqsUpTo(S, n) == UNION {SeqsOfLen(S, k) : k \in 0..n}

\* the decimal digits of a natural number, as code points (str(n))
RECURSIVE Digits(_)
Digits(n) == IF n < 10 THEN <<48 + n>> ELSE Append(Digits(n \div 10), 48 + (n % 10))

(***************************************************************************)
(* Characters.  Code points of the characters the code tests for.          *)
(***************************************************************************)
IsAsciiLower(c) == c \in 97..122
IsAsciiUpper(c) == c \in 65..90
\* the regex class \d on a str pattern: every Unicode decimal digit (Nd);
\* the ASCII digits and the Arabic-Indic digits U+0660..U+0669 stand for it
IsDecimalDigit(c) == c \in 48..57 \/ c \in 1632..1641
\* int(ch) for a decimal digit
DigitValue(c) == IF c \in 48..57 THEN c - 48 ELSE c - 1632
\* the regex class [^a-zA-Z0-9]
IsNonAlnumAscii(c) == ~(IsAsciiLower(c) \/ IsAsciiUpper(c) \/ c \in 48..57)
\* the regex class [^\x00-\x7F]
\* str.lower(): ASCII and Latin-1 capitals map 32 up
Lower(s) ==
    [i \in 1..Len(s) |->
        IF IsAsciiUpper(s[i]) \/ (s[i] \in 192..222 /\ s[i] # 215)
        THEN s[i] + 32 ELSE s[i]]
\* str.lstrip(): drops the leading characters for which str.isspace() holds
RECURSIVE LStrip(_)
LStrip(s) ==
    IF s # <<>> /\ (s[1] \in 9..13 \/ s[1] \in 28..32 \/ s[1] \in {133, 160})
    THEN LStrip(Tail(s)) ELSE s
Strip(s) == Reverse(LStrip(Reverse(LStrip(s))))

(***************************************************************************)
(* Reference data                                                          *)
(***************************************************************************)
\* a faulty variant: the list without the entry password123
_load_common_passwords_short == {
    <<112,97,115,115,119,111,114,100>>,            \* password
    <<49,50,51,52,53,54>>,                         \* 123456
    <<49,50,51,52,53,54,55,56>>,                   \* 12345678
    <<49,50,51,52,53,54,55,56,57>>,                \* 123456789
    <<49,50,51,52,53,54,55,56,57,48>>,             \* 1234567890
    <<113,119,101,114,116,121>>,                   \* qwerty
    <<97,98,99,49,50,51>>,                         \* abc123
    <<112,97,115,115,119,111,114,100,49>>,         \* password1
    <<119,101,108,99,111,109,101>>,                \* welcome
    <<109,111,110,107,101,121>>,                   \* monkey
    <<49,50,51,52,53,54,55>>,                      \* 1234567
    <<108,101,116,109,101,105,110>>,               \* letmein
    <<116,114,117,115,116,110,111,49>>,            \* trustno1
    <<100,114,97,103,111,110>>,                    \* dragon
    <<98,97,115,101,98,97,108,108>>,               \* baseball
    <<105,108,111,118,101,121,111,117>>,           \* iloveyou
    <<109,97,115,116,101,114>>,                    \* master
    <<115,117,110,115,104,105,110,101>>,           \* sunshine
    <<97,115,104,108,101,121>>,                    \* ashley
    <<98,97,105,108,101,121>>,                     \* bailey
    <<112,97,115,115,119,48,114,100>>,             \* passw0rd
    <<115,104,97,100,111,119>>,                    \* shadow
    <<49,50,51,49,50,51>>,                         \* 123123
    <<54,53,52,51,50,49>>,                         \* 654321
    <<115,117,112,101,114,109,97,110>>,            \* superman
    <<113,97,122,119,115,120>>,                    \* qazwsx
    <<109,105,99,104,97,101,108>>,                 \* michael
    <<102,111,111,116,98,97,108,108>>,             \* football
    <<119,101,108,99,111,109,101,49,50,51>>,       \* welcome123
    <<106,101,115,117,115>>,                       \* jesus
    <<110,105,110,106,97>>,                        \* ninja
    <<109,117,115,116,97,110,103>>,                \* mustang
    <<97,100,109,105,110>>,                        \* admin
    <<108,111,103,105,110>> }                      \* login

_load_common_passwords == {
    <<112,97,115,115,119,111,114,100>>,            \* password
    <<49,50,51,52,53,54>>,                         \* 123456
    <<49,50,51,52,53,54,55,56>>,                   \* 12345678
    <<49,50,51,52,53,54,55,56,57>>,                \* 123456789
    <<49,50,51,52,53,54,55,56,57,48>>,             \* 1234567890
    <<113,119,101,114,116,121>>,                   \* qwerty
    <<97,98,99,49,50,51>>,                         \* abc123
    <<112,97,115,115,119,111,114,100,49>>,         \* password1
    <<119,101,108,99,111,109,101>>,                \* welcome
    <<109,111,110,107,101,121>>,                   \* monkey
    <<49,50,51,52,53,54,55>>,                      \* 1234567
    <<108,101,116,109,101,105,110>>,               \* letmein
    <<116,114,117,115,116,110,111,49>>,            \* trustno1
    <<100,114,97,103,111,110>>,                    \* dragon
    <<98,97,115,101,98,97,108,108>>,               \* baseball
    <<105,108,111,118,101,121,111,117>>,           \* iloveyou
    <<109,97,115,116,101,114>>,                    \* master
    <<115,117,110,115,104,105,110,101>>,           \* sunshine
    <<97,115,104,108,101,121>>,                    \* ashley
    <<98,97,105,108,101,121>>,                     \* bailey
    <<112,97,115,115,119,48,114,100>>,             \* passw0rd
    <<115,104,97,100,111,119>>,                    \* shadow
    <<49,50,51,49,50,51>>,                         \* 123123
    <<54,53,52,51,50,49>>,                         \* 654321
    <<115,117,112,101,114,109,97,110>>,            \* superman
    <<113,97,122,119,115,120>>,                    \* qazwsx
    <<109,105,99,104,97,101,108>>,                 \* michael
    <<102,111,111,116,98,97,108,108>>,             \* football
    <<119,101,108,99,111,109,101,49,50,51>>,       \* welcome123
    <<106,101,115,117,115>>,                       \* jesus
    <<110,105,110,106,97>>,                        \* ninja
    <<109,117,115,116,97,110,103>>,                \* mustang
    <<112,97,115,115,119,111,114,100,49,50,51>>,   \* password123
    <<97,100,109,105,110>>,                        \* admin
    <<108,111,103,105,110>> }                      \* login

_load_keyboard_patterns == <<
    <<113,119,101,114,116,121>>,                   \* qwerty
    <<113,119,101,114,116,121,117,105,111,112>>,   \* qwertyuiop
    <<97,115,100,102,103,104>>,                    \* asdfgh
    <<97,115,100,102,103,104,106,107,108>>,        \* asdfghjkl
    <<122,120,99,118,98,110>>,                     \* zxcvbn
    <<49,50,51,52,53,54>>,                         \* 123456
    <<49,50,51,52,53,54,55,56>>,                   \* 12345678
    <<49,50,51,52,53,54,55,56,57>>,                \* 123456789
    <<49,50,51,52,53,54,55,56,57,48>>,             \* 1234567890
    <<97,98,99,100,101,102>>,                      \* abcdef
    <<97,98,99,100,101,102,103,104>>,              \* abcdefgh
    <<113,119,101,114,116,121,49,50,51>>,          \* qwerty123
    <<97,115,100,102,49,50,51>>,                   \* asdf123
    <<122,120,99,118,49,50,51>>  >>                \* zxcv123

(***************************************************************************)
(* Character composition (_analyze_characters, _calculate_diversity)       *)
(***************************************************************************)
BoolToInt(b) == IF b THEN 1 ELSE 0

\* a faulty variant: four types already count as full diversity
_calculate_diversity_four(lower, upper, digit, symbol, unicode) ==
    LET types == BoolToInt(lower) + BoolToInt(upper) + BoolToInt(digit)
                 + BoolToInt(symbol) + BoolToInt(unicode)
    IN  CASE types = 0 -> 0
          [] types = 1 -> 20
          [] types = 2 -> 40
          [] types = 3 -> 60
          [] OTHER     -> 100

_calculate_diversity(lower, upper, digit, symbol, unicode) ==
    LET types == BoolToInt(lower) + BoolToInt(upper) + BoolToInt(digit)
                 + BoolToInt(symbol) + BoolToInt(unicode)
    IN  CASE types = 0 -> 0
          [] types = 1 -> 20
          [] types = 2 -> 40
          [] types = 3 -> 60
          [] types = 4 -> 80
          [] OTHER     -> 100

_analyze_characters(password) ==
    LET has_lower   == \E i \in 1..Len(password) : IsAsciiLower(password[i])
        has_upper   == \E i \in 1..Len(password) : IsAsciiUpper(password[i])
        has_digit   == \E i \in 1..Len(password) : IsDecimalDigit(password[i])
        has_symbol  == \E i \in 1..Len(password) : IsNonAlnumAscii(password[i])
        has_unicode == \E i \in 1..Len(password) : password[i] > 127
        at == 1..Len(password)
    IN  [ has_lowercase      |-> has_lower,
          has_uppercase      |-> has_upper,
          has_digits         |-> has_digit,
          has_symbols        |-> has_symbol,
          has_unicode        |-> has_unicode,
          lowercase_count    |-> Cardinality({i \in at : IsAsciiLower(password[i])}),
          uppercase_count    |-> Cardinality({i \in at : IsAsciiUpper(password[i])}),
          digit_count        |-> Cardinality({i \in at : IsDecimalDigit(password[i])}),
          symbol_count       |-> Cardinality({i \in at : IsNonAlnumAscii(password[i])}),
          character_set_size |-> (IF has_lower THEN 26 ELSE 0)
                               + (IF has_upper THEN 26 ELSE 0)
                               + (IF has_digit THEN 10 ELSE 0)
                               + (IF has_symbol THEN 33 ELSE 0)
                               + (IF has_unicode THEN 100 ELSE 0),
          diversity_score    |-> _calculate_diversity(has_lower, has_upper,
                                     has_digit, has_symbol, has_unicode) ]

(***************************************************************************)
(* Regular-expression scans used by _detect_patterns                       *)
(***************************************************************************)
InClass(cls, c) ==
    CASE cls = "digit" -> IsDecimalDigit(c)
      [] cls = "lower" -> IsAsciiLower(c)

\* the members of S between lo and hi as an increasing sequence
RECURSIVE SortedIn(_, _, _)
SortedIn(S, lo, hi) ==
    IF lo > hi THEN <<>>
    ELSE IF lo = hi THEN (IF lo \in S THEN <<lo>> ELSE <<>>)
    ELSE LET mid == (lo + hi) \div 2
         IN  SortedIn(S, lo, mid) \o SortedIn(S, mid + 1, hi)

\* last index of the maximal run of class cls that starts at i
RunEnd(s, i, cls) ==
    CHOOSE j \in i..Len(s) :
        /\ \A k \in i..j : InClass(cls, s[k])
        /\ (j = Len(s) \/ ~InClass(cls, s[j + 1]))

\* start indices of the maximal runs of class cls, left to right
RunStarts(s, cls) ==
    SortedIn({i \in 1..Len(s) :
                 InClass(cls, s[i]) /\ (i = 1 \/ ~InClass(cls, s[i - 1]))}, 1, Len(s))

\* concatenation of a sequence of sequences
RECURSIVE Flatten(_)
Flatten(ss) ==
    IF ss = <<>> THEN <<>>
    ELSE IF Len(ss) = 1 THEN ss[1]
    ELSE LET half == Len(ss) \div 2
         IN  Flatten(SubSeq(ss, 1, half)) \o Flatten(SubSeq(ss, half + 1, Len(ss)))

\* a faulty variant: the runs are collected from the right
FindRuns3_backwards(s, cls) ==
    LET starts == RunStarts(s, cls)
        runs   == [n \in 1..Len(starts) |->
                      Slice(s, starts[n], RunEnd(s, starts[n], cls))]
        Long(r) == Len(r) >= 3
    IN  Reverse(SelectSeq(runs, Long))

\* re.findall(cls{3,}, s): the maximal runs of length >= 3, left to right
FindRuns3(s, cls) ==
    LET starts == RunStarts(s, cls)
        runs   == [n \in 1..Len(starts) |->
                      Slice(s, starts[n], RunEnd(s, starts[n], cls))]
        Long(r) == Len(r) >= 3
    IN  SelectSeq(runs, Long)

\* re.findall(r'\d{4}', s): non-overlapping groups of four digits
FindYears(s) ==
    LET starts == RunStarts(s, "digit")
        groups == [n \in 1..Len(starts) |->
                     LET a == starts[n]
                         b == RunEnd(s, a, "digit")
                     IN  [m \in 1..((b - a + 1) \div 4) |->
                             Slice(s, a + 4 * (m - 1), a + 4 * m - 1)]]
    IN  Flatten(groups)

IsDateSep(c) == c \in {47, 45}
AllDigits(s, i, j) == \A k \in i..j : IsDecimalDigit(s[k])

\* end of the match of \d{1,2}[/-]\d{1,2}[/-]\d{2,4} at position i, 0 if none
DateMatchEnd(s, i) ==
    LET cands == {d \in (1..2) \X (1..2) \X (2..4) :
                    /\ i + d[1] + d[2] + d[3] + 1 <= Len(s)
                    /\ AllDigits(s, i, i + d[1] - 1)
                    /\ IsDateSep(s[i + d[1]])
                    /\ AllDigits(s, i + d[1] + 1, i + d[1] + d[2])
                    /\ IsDateSep(s[i + d[1] + d[2] + 1])
                    /\ AllDigits(s, i + d[1] + d[2] + 2, i + d[1] + d[2] + d[3] + 1)}
        ends  == {i + d[1] + d[2] + d[3] + 1 : d \in cands}
    IN  IF cands = {} THEN 0
        ELSE CHOOSE e \in ends : \A f \in ends : f <= e

\* re.findall of the date format: leftmost non-overlapping matches
RECURSIVE FindDates(_, _)
FindDates(s, i) ==
    LET starts == {j \in i..Len(s) : DateMatchEnd(s, j) # 0}
    IN  IF starts = {} THEN <<>>
        ELSE LET j == CHOOSE x \in starts : \A y \in starts : x <= y
                 e == DateMatchEnd(s, j)
             IN  <<Slice(s, j, e)>> \o FindDates(s, e + 1)

\* last index of the run of characters equal to s[i] that starts at i
SameRunEnd(s, i) ==
    CHOOSE j \in i..Len(s) :
        /\ \A k \in i..j : s[k] = s[i]
        /\ (j = Len(s) \/ s[j + 1] # s[i])

\* re.finditer(r'(.)\1{2,}', s): runs of 3+ equal characters ('.' excludes
\* the newline), each reported as match[0] * len(match.group())
FindRepeats(s) ==
    LET starts == SortedIn({i \in 1..Len(s) : i = 1 \/ s[i - 1] # s[i]}, 1, Len(s))
        Matches(i) == s[i] # 10 /\ SameRunEnd(s, i) - i + 1 >= 3
        Entry(i) == Repeat(Slice(s, i, SameRunEnd(s, i)), SameRunEnd(s, i) - i + 1)
        found == SelectSeq(starts, Matches)
    IN  [k \in 1..Len(found) |-> Entry(found[k])]

\* re.search(r'^(.)\1+$', s): '$' also matches before one trailing newline
AllSameCharacter(s) ==
    LET Same(n) == n >= 2 /\ s[1] # 10 /\ \A k \in 1..n : s[k] = s[1]
    IN  \/ Same(Len(s))
        \/ (Len(s) >= 3 /\ s[Len(s)] = 10 /\ Same(Len(s) - 1))

\* str.isdigit() / str.isalpha()
\* str.isdigit(): decimal digits and the superscript digits
IsDigitStr(s) ==
    s # <<>> /\ \A k \in 1..Len(s) : IsDecimalDigit(s[k]) \/ s[k] \in {178, 179, 185}
\* str.isalpha(): ASCII letters and the Latin-1 letters
IsAlphaStr(s) ==
    s # <<>> /\ \A k \in 1..Len(s) :
        \/ IsAsciiLower(s[k]) \/ IsAsciiUpper(s[k])
        \/ s[k] \in {170, 181, 186}
        \/ (s[k] \in 192..255 /\ s[k] \notin {215, 247})

(***************************************************************************)
(* Pattern detection (_is_sequential, _detect_patterns)                    *)
(***************************************************************************)
\* a faulty variant: any increase between neighbours counts
_is_sequential_increasing(sequence, is_digit) ==
    IF Len(sequence) < 3 THEN FALSE
    ELSE IF is_digit
         THEN \A i \in 1..(Len(sequence) - 1) :
                 DigitValue(sequence[i + 1]) - DigitValue(sequence[i]) >= 1
         ELSE \A i \in 1..(Len(sequence) - 1) :
                 sequence[i + 1] - sequence[i] >= 1

_is_sequential(sequence, is_digit) ==
    IF Len(sequence) < 3 THEN FALSE
    ELSE IF is_digit
         THEN \A i \in 1..(Len(sequence) - 1) :
                 DigitValue(sequence[i + 1]) - DigitValue(sequence[i]) = 1
         ELSE \A i \in 1..(Len(sequence) - 1) :
                 sequence[i + 1] - sequence[i] = 1

\* a faulty variant: the loop stops at the first pattern it finds
KeyboardMatches_first(keyboard_patterns, password_lower) ==
    LET InPassword(pattern) == IsSubstring(pattern, password_lower)
        found == SelectSeq(keyboard_patterns, InPassword)
    IN  IF found = <<>> THEN <<>> ELSE <<found[1]>>

\* the loop over self.keyboard_patterns (lines 196-199)
KeyboardMatches(keyboard_patterns, password_lower) ==
    LET InPassword(pattern) == IsSubstring(pattern, password_lower)
    IN  SelectSeq(keyboard_patterns, InPassword)

_detect_patterns(password, keyboard_patterns) ==
    LET password_lower == Lower(password)
        SeqDigit(seq)  == _is_sequential(seq, TRUE)
        SeqLetter(seq) == _is_sequential(seq, FALSE)
    IN  [ sequential_digits  |-> SelectSeq(FindRuns3(password, "digit"), SeqDigit),
          sequential_letters |-> SelectSeq(FindRuns3(password_lower, "lower"), SeqLetter),
          repetitive_chars   |-> FindRepeats(password),
          keyboard_patterns  |-> KeyboardMatches(keyboard_patterns, password_lower),
          common_patterns    |->
              (IF AllSameCharacter(password) THEN <<"All same character">> ELSE <<>>)
              \o (IF IsDigitStr(password) THEN <<"All digits">> ELSE <<>>)
              \o (IF IsAlphaStr(password) THEN <<"All letters">> ELSE <<>>),
          date_patterns      |-> FindYears(password) \o FindDates(password, 1) ]

(***************************************************************************)
(* Dictionary matching (_check_dictionary)                                 *)
(***************************************************************************)
\* str.replace for the table {'a':'@','e':'3','i':'1','o':'0','s':'$','t':'7'}
Desubstitute(c) ==
    CASE c = 64 -> 97     \* @ -> a
      [] c = 51 -> 101    \* 3 -> e
      [] c = 49 -> 105    \* 1 -> i
      [] c = 48 -> 111    \* 0 -> o
      [] c = 36 -> 115    \* $ -> s
      [] c = 55 -> 116    \* 7 -> t
      [] OTHER  -> c

\* the loop over self.dictionary_words (lines 264-268), in iteration order
RECURSIVE ScanWords(_, _, _)
ScanWords(words, password_lower, found) ==
    IF words = <<>> THEN found
    ELSE LET word == Head(words)
         IN  IF Len(word) >= 4 /\ IsSubstring(word, password_lower)
                  /\ \A i \in 1..Len(found) : found[i] # word
             THEN ScanWords(Tail(words), password_lower, Append(found, word))
             ELSE ScanWords(Tail(words), password_lower, found)

\* a faulty variant: the substitution check only runs with a dictionary loaded
_check_dictionary_guarded(self, password) ==
    LET password_lower    == Lower(password)
        password_reversed == Reverse(password_lower)
        is_common  == password_lower \in self.common_passwords
        have_dict  == self.dictionary_words # {}
        direct     == have_dict /\ password_lower \in self.dictionary_words
        contained  == have_dict /\ \E word \in self.dictionary_words :
                          Len(word) >= 4 /\ IsSubstring(word, password_lower)
        reversed   == have_dict /\ password_reversed \in self.dictionary_words
        found1     == IF is_common THEN <<password_lower>> ELSE <<>>
        found2     == IF direct THEN Append(found1, password_lower) ELSE found1
        found3     == IF have_dict
                      THEN ScanWords(self.dictionary_iter, password_lower, found2)
                      ELSE found2
        found4     == IF reversed
                      THEN Append(found3, password_reversed
                                  \o <<32,40,114,101,118,101,114,115,101,100,41>>)
                      ELSE found3
        substituted_word == [i \in 1..Len(password_lower) |->
                                Desubstitute(password_lower[i])]
        substituted == have_dict /\ (\/ substituted_word \in self.dictionary_words
                                     \/ substituted_word \in self.common_passwords)
    IN  [ is_common_password        |-> is_common,
          contains_dictionary_word  |-> direct \/ contained,
          contains_reversed_word    |-> reversed,
          contains_substituted_word |-> substituted,
          dictionary_words_found    |-> found4,
          substitutions_detected    |-> IF substituted THEN <<substituted_word>>
                                        ELSE <<>> ]

\* a faulty variant: only a string that a substitution changed is looked up
_check_dictionary_changed(self, password) ==
    LET password_lower    == Lower(password)
        password_reversed == Reverse(password_lower)
        is_common  == password_lower \in self.common_passwords
        have_dict  == self.dictionary_words # {}
        direct     == have_dict /\ password_lower \in self.dictionary_words
        contained  == have_dict /\ \E word \in self.dictionary_words :
                          Len(word) >= 4 /\ IsSubstring(word, password_lower)
        reversed   == have_dict /\ password_reversed \in self.dictionary_words
        found1     == IF is_common THEN <<password_lower>> ELSE <<>>
        found2     == IF direct THEN Append(found1, password_lower) ELSE found1
        found3     == IF have_dict
                      THEN ScanWords(self.dictionary_iter, password_lower, found2)
                      ELSE found2
        found4     == IF reversed
                      THEN Append(found3, password_reversed
                                  \o <<32,40,114,101,118,101,114,115,101,100,41>>)
                      ELSE found3
        substituted_word == [i \in 1..Len(password_lower) |->
                                Desubstitute(password_lower[i])]
        substituted == /\ substituted_word # password_lower
                       /\ \/ substituted_word \in self.dictionary_words
                          \/ substituted_word \in self.common_passwords
    IN  [ is_common_password        |-> is_common,
          contains_dictionary_word  |-> direct \/ contained,
          contains_reversed_word    |-> reversed,
          contains_substituted_word |-> substituted,
          dictionary_words_found    |-> found4,
          substitutions_detected    |-> IF substituted THEN <<substituted_word>>
                                        ELSE <<>> ]

_check_dictionary(self, password) ==
    LET password_lower    == Lower(password)
        password_reversed == Reverse(password_lower)
        is_common  == password_lower \in self.common_passwords
        have_dict  == self.dictionary_words # {}
        direct     == have_dict /\ password_lower \in self.dictionary_words
        contained  == have_dict /\ \E word \in self.dictionary_words :
                          Len(word) >= 4 /\ IsSubstring(word, password_lower)
        reversed   == have_dict /\ password_reversed \in self.dictionary_words
        found1     == IF is_common THEN <<password_lower>> ELSE <<>>
        found2     == IF direct THEN Append(found1, password_lower) ELSE found1
        found3     == IF have_dict
                      THEN ScanWords(self.dictionary_iter, password_lower, found2)
                      ELSE found2
        found4     == IF reversed
                      THEN Append(found3, password_reversed
                                  \o <<32,40,114,101,118,101,114,115,101,100,41>>)
                      ELSE found3
        substituted_word == [i \in 1..Len(password_lower) |->
                                Desubstitute(password_lower[i])]
        substituted == \/ substituted_word \in self.dictionary_words
                       \/ substituted_word \in self.common_passwords
    IN  [ is_common_password        |-> is_common,
          contains_dictionary_word  |-> direct \/ contained,
          contains_reversed_word    |-> reversed,
          contains_substituted_word |-> substituted,
          dictionary_words_found    |-> found4,
          substitutions_detected    |-> IF substituted THEN <<substituted_word>>
                                        ELSE <<>> ]

(***************************************************************************)
(* Entropy (_calculate_entropy).  The float length * log2(char_set_size)   *)
(* is kept exactly, as the pair [n, base] that stands for n * log2(base).  *)
(***************************************************************************)
\* floor(log2(n) * 10^9) as <<millionths, further thousandths>>, for the
\* sums of 26, 26, 10, 33, 100 that _analyze_characters can return
Log2Nano(n) ==
    CASE n = 10  -> <<3321928, 94>>
      [] n = 26  -> <<4700439, 718>>
      [] n = 33  -> <<5044394, 119>>
      [] n = 36  -> <<5169925, 1>>
      [] n = 43  -> <<5426264, 754>>
      [] n = 52  -> <<5700439, 718>>
      [] n = 59  -> <<5882643, 49>>
      [] n = 62  -> <<5954196, 310>>
      [] n = 69  -> <<6108524, 456>>
      [] n = 85  -> <<6409390, 936>>
      [] n = 95  -> <<6569855, 608>>
      [] n = 133 -> <<7055282, 435>>
      [] n = 143 -> <<7159871, 336>>
      [] n = 159 -> <<7312882, 955>>
      [] n = 169 -> <<7400879, 436>>
      [] n = 185 -> <<7531381, 460>>
      [] n = 195 -> <<7607330, 313>>
      [] OTHER   -> <<0, 0>>

\* the value of an entropy in millionths of a bit
EntropyMicro(entropy) ==
    LET l == Log2Nano(entropy.base)
    IN  entropy.n * l[1] + (entropy.n * l[2]) \div 1000

_calculate_entropy(password, char_analysis) ==
    LET length        == Len(password)
        char_set_size == char_analysis.character_set_size
    IN  IF char_set_size = 0 \/ length = 0
        THEN [n |-> 0, base |-> 1]
        ELSE [n |-> length, base |-> char_set_size]

\* round(x, 2) of a float given in millionths, as a float in hundredths
Round2(micro) == [kind |-> "float", h |-> (micro + 5000) \div 10000]

(***************************************************************************)
(* Natural numbers of any size, as their decimal digits (most significant  *)
(* first, no leading zero; zero is <<0>>)                                  *)
(***************************************************************************)
StripZeros(b) ==
    LET kept == {i \in 1..Len(b) : b[i] # 0 \/ i = Len(b)}
        from == CHOOSE i \in kept : \A j \in kept : i <= j
    IN  SubSeq(b, from, Len(b))

RECURSIVE BigOfNat(_)
BigOfNat(n) == IF n < 10 THEN <<n>> ELSE Append(BigOfNat(n \div 10), n % 10)

\* f[lo] + ... + f[hi]
RECURSIVE SumRange(_, _, _)
SumRange(f, lo, hi) ==
    IF lo > hi THEN 0
    ELSE IF lo = hi THEN f[lo]
    ELSE LET mid == (lo + hi) \div 2
         IN  SumRange(f, lo, mid) + SumRange(f, mid + 1, hi)

\* column sums (least significant first) brought back to single digits
RECURSIVE Carry(_)
Carry(c) ==
    IF \A k \in DOMAIN c : c[k] < 10 THEN c
    ELSE Carry([k \in DOMAIN c |->
                   (c[k] % 10) + (IF k > 1 THEN c[k - 1] \div 10 ELSE 0)])

\* the product of two numbers given by their digits
BigTimes(x, y) ==
    LET rx == Reverse(x)
        ry == Reverse(y)
        n  == Len(x) + Len(y)
        column(k) ==
            SumRange([i \in 1..Len(rx) |->
                         IF (k + 1 - i) \in 1..Len(ry)
                         THEN rx[i] * ry[k + 1 - i] ELSE 0], 1, Len(rx))
    IN  StripZeros(Reverse(Carry([k \in 1..n |-> column(k)])))

\* long division of the digits lo..hi of b by d (below 2 * 10^8), entered with
\* the remainder rem of the digits before them
RECURSIVE DivDigits(_, _, _, _, _)
DivDigits(b, lo, hi, d, rem) ==
    IF lo > hi THEN [digits |-> <<>>, rem |-> rem]
    ELSE IF lo = hi
         THEN LET v == rem * 10 + b[lo]
              IN  [digits |-> <<v \div d>>, rem |-> v % d]
    ELSE LET mid   == (lo + hi) \div 2
             left  == DivDigits(b, lo, mid, d, rem)
             right == DivDigits(b, mid + 1, hi, d, left.rem)
         IN  [digits |-> left.digits \o right.digits, rem |-> right.rem]
BigDiv(b, d) == StripZeros(DivDigits(b, 1, Len(b), d, 0).digits)

\* b - 1 for b > 0
BigPred(b) ==
    LET nonzero == {i \in 1..Len(b) : b[i] # 0}
        last_nz == CHOOSE i \in nonzero : \A j \in nonzero : j <= i
    IN  StripZeros([i \in 1..Len(b) |->
                       IF i < last_nz THEN b[i]
                       ELSE IF i = last_nz THEN b[i] - 1 ELSE 9])

RECURSIVE BigPow(_, _)
BigPow(base, n) ==
    IF n = 0 THEN <<1>>
    ELSE IF n % 2 = 1 THEN BigTimes(BigPow(base, n - 1), BigOfNat(base))
    ELSE LET half == BigPow(base, n \div 2) IN BigTimes(half, half)

\* the value of at most nine digits
RECURSIVE NatOfDigits(_)
NatOfDigits(b) ==
    IF b = <<>> THEN 0 ELSE NatOfDigits(SubSeq(b, 1, Len(b) - 1)) * 10 + b[Len(b)]

\* b < n, for n below 10^9
BigLess(b, n) == Len(b) <= 9 /\ NatOfDigits(b) < n

\* int(x) of a float as Python prints it: the value itself below 10^9; above,
\* the nine leading digits and the number of digits that follow (the later
\* digits of such a float carry no information)
FloatInt(b) ==
    IF Len(b) <= 9 THEN [lead |-> NatOfDigits(b), more |-> 0]
    ELSE [lead |-> NatOfDigits(SubSeq(b, 1, 9)), more |-> Len(b) - 9]

(***************************************************************************)
(* Cracking time (_estimate_cracking_time and its format_time)             *)
(***************************************************************************)
\* guesses per second, as powers of ten: 10, 1e6, 1e9, 1e12
online_brute_force == 1
offline_cpu == 6
offline_gpu == 9
cloud_cracking == 12

\* 2 ** entropy raises OverflowError when the result exceeds the double range
Pow2Overflows(entropy) == EntropyMicro(entropy) >= 1024 * 1000000

\* combinations = 2 ** entropy: the exact power, and whether the double lies
\* just below it.  The double 2 ** (n * log2(10)) lies just below 10^n for the
\* n listed; for the other alphabet sizes, and for larger n, no output depends
\* on the last bits
Combinations(entropy) ==
    [num   |-> BigPow(entropy.base, entropy.n),
     below |-> entropy.base = 10 /\ entropy.n \in {1, 2, 4, 6, 7, 8, 9, 12, 13}]

Duration(count, unit) == [n |-> FloatInt(count), unit |-> unit]

\* a faulty variant: a duration on a threshold stays in the lower unit
format_time_inclusive(seconds) ==
    LET floor_num == IF seconds.below THEN BigPred(seconds.num) ELSE seconds.num
        whole == IF Len(floor_num) <= seconds.exp10 THEN <<0>>
                 ELSE SubSeq(floor_num, 1, Len(floor_num) - seconds.exp10)
        exact == ~seconds.below
                 /\ \A i \in 1..Len(seconds.num) :
                        i > Len(seconds.num) - seconds.exp10 => seconds.num[i] = 0
        \* seconds <= n
        AtMost(n) == BigLess(whole, n) \/ (exact /\ whole = BigOfNat(n))
    IN  IF whole = <<0>> \/ AtMost(1) THEN Duration(<<0>>, "Instant")
        ELSE IF AtMost(60) THEN Duration(whole, "seconds")
        ELSE IF AtMost(3600) THEN Duration(BigDiv(whole, 60), "minutes")
        ELSE IF AtMost(86400) THEN Duration(BigDiv(whole, 3600), "hours")
        ELSE IF AtMost(31536000)
             THEN Duration(BigDiv(whole, 86400), "days")
        ELSE IF BigLess(BigDiv(whole, 31536000), 100)
                \/ (exact /\ whole = <<3,1,5,3,6,0,0,0,0,0>>)
             THEN Duration(BigDiv(whole, 31536000), "years")
        ELSE Duration(BigDiv(whole, 31536000), "years (centuries)")

\* seconds = [num, below, exp10] stands for the double next to num / 10^exp10
format_time(seconds) ==
    LET floor_num == IF seconds.below THEN BigPred(seconds.num) ELSE seconds.num
        \* floor(floor_num / 10^exp10)
        whole == IF Len(floor_num) <= seconds.exp10 THEN <<0>>
                 ELSE SubSeq(floor_num, 1, Len(floor_num) - seconds.exp10)
    IN  IF whole = <<0>> THEN Duration(<<0>>, "Instant")
        ELSE IF BigLess(whole, 60) THEN Duration(whole, "seconds")
        ELSE IF BigLess(whole, 3600) THEN Duration(BigDiv(whole, 60), "minutes")
        ELSE IF BigLess(whole, 86400) THEN Duration(BigDiv(whole, 3600), "hours")
        ELSE IF BigLess(whole, 31536000)
             THEN Duration(BigDiv(whole, 86400), "days")
        ELSE IF BigLess(BigDiv(whole, 31536000), 100)
             THEN Duration(BigDiv(whole, 31536000), "years")
        ELSE Duration(BigDiv(whole, 31536000), "years (centuries)")

\* f"{x:.2e}": three significant digits, round half to even, and the exponent
Sci2(b) ==
    LET len   == Len(b)
        first == NatOfDigits([i \in 1..3 |-> IF i <= len THEN b[i] ELSE 0])
        rest  == IF len > 3 THEN SubSeq(b, 4, len) ELSE <<>>
        above == rest # <<>> /\ (rest[1] > 5 \/
                     (rest[1] = 5 /\ \E i \in 2..Len(rest) : rest[i] # 0))
        tie   == rest # <<>> /\ rest[1] = 5 /\ \A i \in 2..Len(rest) : rest[i] = 0
        up    == above \/ (tie /\ first % 2 = 1)
        mant  == IF up THEN first + 1 ELSE first
    IN  IF mant = 1000 THEN [mant |-> 100, exp |-> len]
        ELSE [mant |-> mant, exp |-> len - 1]

\* combinations / rate
Seconds(combinations, rate) ==
    [num |-> combinations.num, below |-> combinations.below, exp10 |-> rate]

\* defined only when 2 ** entropy does not overflow
_estimate_cracking_time(entropy) ==
    LET combinations == Combinations(entropy)
    IN  [ online_brute_force |-> format_time(Seconds(combinations, online_brute_force)),
          offline_cpu        |-> format_time(Seconds(combinations, offline_cpu)),
          offline_gpu        |-> format_time(Seconds(combinations, offline_gpu)),
          cloud_cracking     |-> format_time(Seconds(combinations, cloud_cracking)),
          combinations       |-> Sci2(combinations.num) ]

(***************************************************************************)
(* Score and category (_calculate_score, _categorize_strength)             *)
(***************************************************************************)
Million == 1000000

\* a faulty variant: the bounds of the steps are taken inclusive
LengthScore_inclusive(length) ==
    IF length <= 8 THEN 0
    ELSE IF length <= 12 THEN 5
    ELSE IF length <= 16 THEN 10
    ELSE IF length <= 20 THEN 13
    ELSE 15

\* length_score (lines 355-365)
LengthScore(length) ==
    IF length < 8 THEN 0
    ELSE IF length < 12 THEN 5
    ELSE IF length < 16 THEN 10
    ELSE IF length < 20 THEN 13
    ELSE 15

\* a faulty variant: the entropy is normalised against 256 bits
EntropyScore_256(entropy) ==
    LET em == EntropyMicro(entropy)
    IN  Min(30 * Million, (em \div 128) * 15 + ((em % 128) * 15) \div 128)

\* entropy_score (lines 367-369), in millionths: (entropy / 128) * 30, computed
\* without leaving 32 bits
EntropyScore(entropy) ==
    LET em == EntropyMicro(entropy)
    IN  Min(30 * Million, (em \div 64) * 15 + ((em % 64) * 15) \div 64)

\* a faulty variant: a detected date costs two points
PatternScore_dates(patterns) ==
    Max(0, 15
        - (IF patterns.sequential_digits # <<>> THEN 5 ELSE 0)
        - (IF patterns.sequential_letters # <<>> THEN 5 ELSE 0)
        - (IF patterns.repetitive_chars # <<>> THEN 4 ELSE 0)
        - (IF patterns.keyboard_patterns # <<>> THEN 6 ELSE 0)
        - (IF patterns.common_patterns # <<>> THEN 3 ELSE 0)
        - (IF patterns.date_patterns # <<>> THEN 2 ELSE 0))

\* pattern_score (lines 386-398)
PatternScore(patterns) ==
    Max(0, 15
        - (IF patterns.sequential_digits # <<>> THEN 5 ELSE 0)
        - (IF patterns.sequential_letters # <<>> THEN 5 ELSE 0)
        - (IF patterns.repetitive_chars # <<>> THEN 4 ELSE 0)
        - (IF patterns.keyboard_patterns # <<>> THEN 6 ELSE 0)
        - (IF patterns.common_patterns # <<>> THEN 3 ELSE 0))

\* diversity_score (lines 371-372): (diversity / 100) * 20
DiversityScore(char_analysis) == (char_analysis.diversity_score * 20) \div 100

\* a faulty variant: the stacked penalties are not floored at 0
DictScore_unfloored(dictionary_check) ==
    20 - (IF dictionary_check.is_common_password THEN 15 ELSE 0)
       - (IF dictionary_check.contains_dictionary_word THEN 10 ELSE 0)
       - (IF dictionary_check.contains_reversed_word THEN 5 ELSE 0)
       - (IF dictionary_check.contains_substituted_word THEN 8 ELSE 0)

\* a faulty variant: a reversed word costs as much as a dictionary word
DictScore_reversed(dictionary_check) ==
    Max(0, 20
        - (IF dictionary_check.is_common_password THEN 15 ELSE 0)
        - (IF dictionary_check.contains_dictionary_word THEN 10 ELSE 0)
        - (IF dictionary_check.contains_reversed_word THEN 10 ELSE 0)
        - (IF dictionary_check.contains_substituted_word THEN 8 ELSE 0))

\* dict_score (lines 374-384)
DictScore(dictionary_check) ==
    Max(0, 20
        - (IF dictionary_check.is_common_password THEN 15 ELSE 0)
        - (IF dictionary_check.contains_dictionary_word THEN 10 ELSE 0)
        - (IF dictionary_check.contains_reversed_word THEN 5 ELSE 0)
        - (IF dictionary_check.contains_substituted_word THEN 8 ELSE 0))

\* the score in millionths; kind tells whether min/max returned the int bound
_calculate_score(length, char_analysis, patterns, dictionary_check, entropy) ==
    LET length_score == LengthScore(length)
        entropy_score == EntropyScore(entropy)
        diversity_score == DiversityScore(char_analysis)
        dict_score == DictScore(dictionary_check)
        pattern_score == PatternScore(patterns)
        total_score == (length_score + diversity_score + dict_score
                        + pattern_score) * Million + entropy_score
    IN  IF total_score <= 0 THEN [kind |-> "int", micro |-> 0]
        ELSE IF total_score >= 100 * Million
             THEN [kind |-> "int", micro |-> 100 * Million]
        ELSE [kind |-> "float", micro |-> total_score]

_categorize_strength(score) ==
    IF score.micro < 30 * Million THEN "Very Weak"
    ELSE IF score.micro < 50 * Million THEN "Weak"
    ELSE IF score.micro < 70 * Million THEN "Medium"
    ELSE IF score.micro < 90 * Million THEN "Strong"
    ELSE "Very Strong"

\* round(score, 2): an int stays an int
RoundScore(score) ==
    IF score.kind = "int" THEN [kind |-> "int", h |-> score.micro \div 10000]
    ELSE Round2(score.micro)

(***************************************************************************)
(* Text.  A string built by formatting is the sequence of its fragments: a *)
(* literal of the source, or the code points of an interpolated value.     *)
(***************************************************************************)
Lit(text) == [lit |-> text]
Dyn(codepoints) == [cp |-> codepoints]

(***************************************************************************)
(* Recommendations (_generate_recommendations)                             *)
(***************************************************************************)
\* a faulty variant: the positive message goes by the score, not by the list
_generate_recommendations_by_score(length, char_analysis, patterns, dictionary_check, entropy, score) ==
    LET When(cond, msg) == IF cond THEN <<msg>> ELSE <<>>
        recommendations ==
            When(length < 12,
                 <<Lit("Increase password length to at least 12 characters (currently "),
                   Dyn(Digits(length)), Lit(")")>>)
         \o When(~char_analysis.has_lowercase, <<Lit("Add lowercase letters")>>)
         \o When(~char_analysis.has_uppercase, <<Lit("Add uppercase letters")>>)
         \o When(~char_analysis.has_digits, <<Lit("Add numbers")>>)
         \o When(~char_analysis.has_symbols,
                 <<Lit("Add special characters (!@#$%^&*)")>>)
         \o When(dictionary_check.is_common_password,
                 <<Lit("Avoid using common passwords - use a unique password")>>)
         \o When(dictionary_check.contains_dictionary_word,
                 <<Lit("Avoid dictionary words - use random combinations")>>)
         \o When(dictionary_check.contains_substituted_word,
                 <<Lit("Simple character substitutions (like @ for a) are easily detected")>>)
         \o When(patterns.sequential_digits # <<>>,
                 <<Lit("Avoid sequential numbers (123, 1234, etc.)")>>)
         \o When(patterns.sequential_letters # <<>>,
                 <<Lit("Avoid sequential letters (abc, abcd, etc.)")>>)
         \o When(patterns.repetitive_chars # <<>>,
                 <<Lit("Avoid repetitive characters (aaa, 111, etc.)")>>)
         \o When(patterns.keyboard_patterns # <<>>,
                 <<Lit("Avoid keyboard patterns (qwerty, asdf, etc.)")>>)
         \o When(EntropyMicro(entropy) < 40 * Million,
                 <<Lit("Password has low entropy - add more randomness")>>)
    IN  IF score.micro >= 70 * Million
        THEN Append(recommendations, <<Lit("Password meets most security requirements. Keep it unique and don't reuse it!")>>)
        ELSE recommendations

_generate_recommendations(length, char_analysis, patterns, dictionary_check, entropy, score) ==
    LET When(cond, msg) == IF cond THEN <<msg>> ELSE <<>>
        recommendations ==
            When(length < 12,
                 <<Lit("Increase password length to at least 12 characters (currently "),
                   Dyn(Digits(length)), Lit(")")>>)
         \o When(~char_analysis.has_lowercase, <<Lit("Add lowercase letters")>>)
         \o When(~char_analysis.has_uppercase, <<Lit("Add uppercase letters")>>)
         \o When(~char_analysis.has_digits, <<Lit("Add numbers")>>)
         \o When(~char_analysis.has_symbols,
                 <<Lit("Add special characters (!@#$%^&*)")>>)
         \o When(dictionary_check.is_common_password,
                 <<Lit("Avoid using common passwords - use a unique password")>>)
         \o When(dictionary_check.contains_dictionary_word,
                 <<Lit("Avoid dictionary words - use random combinations")>>)
         \o When(dictionary_check.contains_substituted_word,
                 <<Lit("Simple character substitutions (like @ for a) are easily detected")>>)
         \o When(patterns.sequential_digits # <<>>,
                 <<Lit("Avoid sequential numbers (123, 1234, etc.)")>>)
         \o When(patterns.sequential_letters # <<>>,
                 <<Lit("Avoid sequential letters (abc, abcd, etc.)")>>)
         \o When(patterns.repetitive_chars # <<>>,
                 <<Lit("Avoid repetitive characters (aaa, 111, etc.)")>>)
         \o When(patterns.keyboard_patterns # <<>>,
                 <<Lit("Avoid keyboard patterns (qwerty, asdf, etc.)")>>)
         \o When(EntropyMicro(entropy) < 40 * Million,
                 <<Lit("Password has low entropy - add more randomness")>>)
    IN  IF recommendations = <<>>
        THEN << <<Lit("Password meets most security requirements. Keep it unique and don't reuse it!")>> >>
        ELSE recommendations

(***************************************************************************)
(* Report assembly (analyze, _empty_report)                                *)
(***************************************************************************)
\* the dict literal {}
EmptyDict == <<>>

\* datetime.now().isoformat() for the clock reading now
IsoFormat(now) == Digits(now)

\* a faulty variant: the sentinel marks its entropy as not computed
_empty_report_unset(now) ==
    [ password           |-> <<>>,
      length             |-> 0,
      entropy_bits       |-> [kind |-> "float", h |-> -100],
      score              |-> [kind |-> "float", h |-> 0],
      category           |-> "Very Weak",
      cracking_time      |-> EmptyDict,
      character_analysis |-> EmptyDict,
      patterns_detected  |-> EmptyDict,
      dictionary_check   |-> EmptyDict,
      recommendations    |-> << <<Lit("Please enter a password to analyze")>> >>,
      timestamp          |-> IsoFormat(now) ]

\* a faulty variant: the sentinel without its recommendation
_empty_report_bare(now) ==
    [ password           |-> <<>>,
      length             |-> 0,
      entropy_bits       |-> [kind |-> "float", h |-> 0],
      score              |-> [kind |-> "float", h |-> 0],
      category           |-> "Very Weak",
      cracking_time      |-> EmptyDict,
      character_analysis |-> EmptyDict,
      patterns_detected  |-> EmptyDict,
      dictionary_check   |-> EmptyDict,
      recommendations    |-> <<>>,
      timestamp          |-> IsoFormat(now) ]

_empty_report(now) ==
    [ password           |-> <<>>,
      length             |-> 0,
      entropy_bits       |-> [kind |-> "float", h |-> 0],
      score              |-> [kind |-> "float", h |-> 0],
      category           |-> "Very Weak",
      cracking_time      |-> EmptyDict,
      character_analysis |-> EmptyDict,
      patterns_detected  |-> EmptyDict,
      dictionary_check   |-> EmptyDict,
      recommendations    |-> << <<Lit("Please enter a password to analyze")>> >>,
      timestamp          |-> IsoFormat(now) ]

Returned(report) == [status |-> "returned", report |-> report]
Raised(error) == [status |-> "raised", error |-> error]

\* the outcome of analyze(password) on the engine self at clock reading now
analyze(self, password, now) ==
    IF password = <<>> THEN Returned(_empty_report(now))
    ELSE
    LET length           == Len(password)
        char_analysis    == _analyze_characters(password)
        patterns         == _detect_patterns(password, self.keyboard_patterns)
        dictionary_check == _check_dictionary(self, password)
        entropy          == _calculate_entropy(password, char_analysis)
        score            == _calculate_score(length, char_analysis, patterns,
                                             dictionary_check, entropy)
    IN  IF Pow2Overflows(entropy) THEN Raised("OverflowError")
        ELSE Returned(
          [ password           |-> Repeat(<<42>>, Len(password)),
            length             |-> length,
            entropy_bits       |-> Round2(EntropyMicro(entropy)),
            score              |-> RoundScore(score),
            category           |-> _categorize_strength(score),
            cracking_time      |-> _estimate_cracking_time(entropy),
            character_analysis |-> char_analysis,
            patterns_detected  |-> patterns,
            dictionary_check   |-> dictionary_check,
            recommendations    |-> _generate_recommendations(length, char_analysis,
                                       patterns, dictionary_check, entropy, score),
            timestamp          |-> IsoFormat(now) ])

(***************************************************************************)
(* JSON (json.dump(report, f, indent=2, ensure_ascii=False) and its        *)
(* inverse json.load).  Objects and arrays keep their shape; every leaf is *)
(* written as the token text the encoder emits and read back from it.      *)
(***************************************************************************)
HexDigit(v) == IF v < 10 THEN 48 + v ELSE 87 + v
HexValue(c) == IF c \in 48..57 THEN c - 48
               ELSE IF c \in 97..102 THEN c - 87 ELSE c - 55

\* the encoder's escape of one character (ensure_ascii=False)
EscapeChar(c) ==
    CASE c = 34 -> <<92, 34>>       \* "  -> \"
      [] c = 92 -> <<92, 92>>       \* \  -> \\
      [] c = 10 -> <<92, 110>>      \* \n
      [] c = 13 -> <<92, 114>>      \* \r
      [] c = 9  -> <<92, 116>>      \* \t
      [] c = 8  -> <<92, 98>>       \* \b
      [] c = 12 -> <<92, 102>>      \* \f
      [] c < 32 -> <<92, 117, 48, 48, HexDigit(c \div 16), HexDigit(c % 16)>>
      [] OTHER  -> <<c>>

JsonEscape(s) == Flatten([i \in 1..Len(s) |-> EscapeChar(s[i])])

\* the decoder's scan of the text between the quotes
RECURSIVE JsonUnescape(_)
JsonUnescape(t) ==
    IF t = <<>> THEN <<>>
    ELSE IF t[1] # 92 \/ Len(t) < 2 THEN <<t[1]>> \o JsonUnescape(Tail(t))
    ELSE IF t[2] = 117 /\ Len(t) >= 6
         THEN <<HexValue(t[3]) * 4096 + HexValue(t[4]) * 256
                + HexValue(t[5]) * 16 + HexValue(t[6])>>
              \o JsonUnescape(SubSeq(t, 7, Len(t)))
    ELSE << CASE t[2] = 110 -> 10
              [] t[2] = 114 -> 13
              [] t[2] = 116 -> 9
              [] t[2] = 98  -> 8
              [] t[2] = 102 -> 12
              [] OTHER      -> t[2] >>
         \o JsonUnescape(SubSeq(t, 3, Len(t)))

\* int(text) of a digit string
NatOfText(t) == NatOfDigits([i \in 1..Len(t) |-> t[i] - 48])

\* the number token of an int, or of a float given in hundredths
\* (float.__repr__ of a float with at most two decimals)
NumberText(v) ==
    IF v.kind = "int" THEN Digits(v.h \div 100)
    ELSE Digits(v.h \div 100) \o <<46>>
         \o (IF v.h % 10 = 0 THEN <<48 + ((v.h % 100) \div 10)>>
             ELSE <<48 + ((v.h % 100) \div 10), 48 + (v.h % 10)>>)

\* the decoder's number: a token with a fraction part is a float, else an int
ParseNumber(t) ==
    IF \E i \in 1..Len(t) : t[i] = 46
    THEN LET dot  == CHOOSE i \in 1..Len(t) : t[i] = 46
             frac == SubSeq(t, dot + 1, Len(t))
         IN  [kind |-> "float",
              h |-> NatOfText(SubSeq(t, 1, dot - 1)) * 100
                    + (IF Len(frac) = 1 THEN NatOfText(frac) * 10
                       ELSE NatOfText(SubSeq(frac, 1, 2)))]
    ELSE [kind |-> "int", h |-> NatOfText(t) * 100]

\* JSON tokens
JStr(s) == [str |-> JsonEscape(s)]
JInt(n) == [num |-> Digits(n)]
JNum(v) == [num |-> NumberText(v)]
JBool(b) == [bool |-> IF b THEN "true" ELSE "false"]
\* a string of literal text and formatted numbers holds nothing to escape
JText(x) == [text |-> x]
\* a string made of fragments: the interpolated parts are escaped
JFragments(msg) ==
    [frags |-> [i \in 1..Len(msg) |->
                   IF "cp" \in DOMAIN msg[i] THEN Dyn(JsonEscape(msg[i].cp))
                   ELSE msg[i]]]

PStr(tok) == JsonUnescape(tok.str)
PInt(tok) == NatOfText(tok.num)
PNum(tok) == ParseNumber(tok.num)
PBool(tok) == tok.bool = "true"
PText(tok) == tok.text
PFragments(tok) ==
    [i \in 1..Len(tok.frags) |->
        IF "cp" \in DOMAIN tok.frags[i] THEN Dyn(JsonUnescape(tok.frags[i].cp))
        ELSE tok.frags[i]]

BoolKeys == {"has_lowercase", "has_uppercase", "has_digits", "has_symbols",
             "has_unicode", "is_common_password", "contains_dictionary_word",
             "contains_reversed_word", "contains_substituted_word"}

\* the document json.dump writes for a report
json_dump(report) ==
    LET StrList(l)  == [i \in 1..Len(l) |-> JStr(l[i])]
        TextList(l) == [i \in 1..Len(l) |-> JText(l[i])]
        ct == report.cracking_time
        rs == report.recommendations
        ca == report.character_analysis
        pd == report.patterns_detected
        dc == report.dictionary_check
    IN  [ password           |-> JStr(report.password),
          length             |-> JInt(report.length),
          entropy_bits       |-> JNum(report.entropy_bits),
          score              |-> JNum(report.score),
          category           |-> JText(report.category),
          cracking_time      |-> [k \in DOMAIN ct |-> JText(ct[k])],
          character_analysis |->
              [k \in DOMAIN ca |-> IF k \in BoolKeys THEN JBool(ca[k]) ELSE JInt(ca[k])],
          patterns_detected  |->
              [k \in DOMAIN pd |-> IF k = "common_patterns" THEN TextList(pd[k])
                                   ELSE StrList(pd[k])],
          dictionary_check   |->
              [k \in DOMAIN dc |-> IF k \in BoolKeys THEN JBool(dc[k]) ELSE StrList(dc[k])],
          recommendations    |-> [i \in 1..Len(rs) |-> JFragments(rs[i])],
          timestamp          |-> JStr(report.timestamp) ]

\* the value json.load returns for a document
json_load(doc) ==
    LET StrList(l)  == [i \in 1..Len(l) |-> PStr(l[i])]
        TextList(l) == [i \in 1..Len(l) |-> PText(l[i])]
        ct == doc.cracking_time
        rs == doc.recommendations
        ca == doc.character_analysis
        pd == doc.patterns_detected
        dc == doc.dictionary_check
    IN  [ password           |-> PStr(doc.password),
          length             |-> PInt(doc.length),
          entropy_bits       |-> PNum(doc.entropy_bits),
          score              |-> PNum(doc.score),
          category           |-> PText(doc.category),
          cracking_time      |-> [k \in DOMAIN ct |-> PText(ct[k])],
          character_analysis |->
              [k \in DOMAIN ca |-> IF k \in BoolKeys THEN PBool(ca[k]) ELSE PInt(ca[k])],
          patterns_detected  |->
              [k \in DOMAIN pd |-> IF k = "common_patterns" THEN TextList(pd[k])
                                   ELSE StrList(pd[k])],
          dictionary_check   |->
              [k \in DOMAIN dc |-> IF k \in BoolKeys THEN PBool(dc[k]) ELSE StrList(dc[k])],
          recommendations    |-> [i \in 1..Len(rs) |-> PFragments(rs[i])],
          timestamp          |-> PStr(doc.timestamp) ]

(***************************************************************************)
(* Text rendering (_format_text_report): the lines that are joined by "\n" *)
(* (the literals leave out the warning sign, check mark and bullet glyphs) *)
(***************************************************************************)
\* dict.get(key, default)
Get(d, key, default) == IF key \in DOMAIN d THEN d[key] ELSE default

\* ', '.join(items) of items that are fragments
JoinComma(items) ==
    [i \in 1..(2 * Len(items) - 1) |->
        IF i % 2 = 1 THEN items[(i + 1) \div 2] ELSE Lit(", ")]

\* the keys of patterns_detected in insertion order, with their .title() form
PatternTitles == <<
    <<"sequential_digits", "Sequential Digits">>,
    <<"sequential_letters", "Sequential Letters">>,
    <<"repetitive_chars", "Repetitive Chars">>,
    <<"keyboard_patterns", "Keyboard Patterns">>,
    <<"common_patterns", "Common Patterns">>,
    <<"date_patterns", "Date Patterns">> >>

_format_text_report(report) ==
    LET rule == <<Lit("============================================================")>>
        ct == report.cracking_time
        ca == report.character_analysis
        pd == report.patterns_detected
        dc == report.dictionary_check
        \* a duration is kept structured
        Time(key) == IF key \in DOMAIN ct THEN [fmt |-> ct[key]] ELSE Lit("N/A")
        \* str(True) / str(False)
        Flag(key) == Lit(IF Get(ca, key, FALSE) THEN "True" ELSE "False")
        Lits(l) == [i \in 1..Len(l) |-> Lit(l[i])]
        Dyns(l) == [i \in 1..Len(l) |-> Dyn(l[i])]
        Count(key) == Dyn(Digits(Get(ca, key, 0)))
        ClassLine(label, flag, count) ==
            <<Lit(label), Flag(flag), Lit(" ("), Count(count), Lit(" chars)")>>
        Listed(key) == key \in DOMAIN pd /\ pd[key] # <<>>
        PatternLine(entry) ==
            <<Lit("  "), Lit(entry[2]), Lit(": ")>>
            \o (IF entry[1] = "common_patterns" THEN JoinComma(Lits(pd[entry[1]]))
                ELSE JoinComma(Dyns(pd[entry[1]])))
        HasPattern(entry) == Listed(entry[1])
        pattern_lines ==
            IF \E i \in 1..Len(PatternTitles) : Listed(PatternTitles[i][1])
            THEN LET listed == SelectSeq(PatternTitles, HasPattern)
                 IN  [i \in 1..Len(listed) |-> PatternLine(listed[i])]
            ELSE << <<Lit("  No weak patterns detected")>> >>
        common      == Get(dc, "is_common_password", FALSE)
        has_word    == Get(dc, "contains_dictionary_word", FALSE)
        substituted == Get(dc, "contains_substituted_word", FALSE)
        dictionary_lines ==
            (IF common THEN << <<Lit("  Common password detected!")>> >> ELSE <<>>)
         \o (IF has_word
             THEN << <<Lit("  Dictionary words found: ")>>
                     \o JoinComma(Dyns(Get(dc, "dictionary_words_found", <<>>))) >>
             ELSE <<>>)
         \o (IF substituted
             THEN << <<Lit("  Character substitution detected")>> >> ELSE <<>>)
         \o (IF ~(common \/ has_word \/ substituted)
             THEN << <<Lit("  No dictionary words detected")>> >> ELSE <<>>)
        Bullet(rec) == <<Lit("  * ")>> \o rec
    IN  << rule, <<Lit("PASSWORD STRENGTH ANALYSIS REPORT")>>, rule, <<>>,
           <<Lit("Analysis Date: "), Dyn(report.timestamp)>>,
           <<Lit("Password Length: "), Dyn(Digits(report.length)), Lit(" characters")>>,
           <<Lit("Entropy: "), Dyn(NumberText(report.entropy_bits)), Lit(" bits")>>,
           <<Lit("Strength Score: "), Dyn(NumberText(report.score)), Lit("/100")>>,
           <<Lit("Category: "), Lit(report.category)>>,
           <<>>,
           <<Lit("CRACKING TIME ESTIMATES:")>>,
           <<Lit("  Online Brute-Force: "), Time("online_brute_force")>>,
           <<Lit("  Offline CPU: "), Time("offline_cpu")>>,
           <<Lit("  Offline GPU: "), Time("offline_gpu")>>,
           <<Lit("  Cloud Cracking: "), Time("cloud_cracking")>>,
           <<>>,
           <<Lit("CHARACTER ANALYSIS:")>>,
           ClassLine("  Lowercase: ", "has_lowercase", "lowercase_count"),
           ClassLine("  Uppercase: ", "has_uppercase", "uppercase_count"),
           ClassLine("  Digits: ", "has_digits", "digit_count"),
           ClassLine("  Symbols: ", "has_symbols", "symbol_count"),
           <<Lit("  Character Set Size: "), Count("character_set_size")>>,
           <<>>,
           <<Lit("PATTERNS DETECTED:")>> >>
        \o pattern_lines
        \o << <<>>, <<Lit("DICTIONARY CHECK:")>> >>
        \o dictionary_lines
        \o << <<>>, <<Lit("RECOMMENDATIONS:")>> >>
        \o [i \in 1..Len(report.recommendations) |->
               Bullet(report.recommendations[i])]
        \o << <<>>, rule >>

(***************************************************************************)
(* The file system and the word list                                       *)
(***************************************************************************)
NoPath == ""
DictPath == "words.txt"
MissingPath == "missing.txt"
\* a path through the word list, a regular file: it names nothing
NestedPath == "words.txt/extra"
OutPath == "report.out"
\* a second word list, of one line: "5z2x7a$b9c!1"
ReversedPath == "reversed.txt"

\* the lines of words.txt, each with its newline: "Password", "", " word "
WordList == <<
    <<80,97,115,115,119,111,114,100,10>>,
    <<10>>,
    <<32,119,111,114,100,32,10>> >>

\* the word lists exist; the other files do not: their directory exists, so
\* that open(path, 'w') creates them
InitialFiles ==
    [path \in {DictPath, MissingPath, NestedPath, OutPath, ReversedPath} |->
        IF path = DictPath THEN [kind |-> "lines", lines |-> WordList]
        ELSE IF path = ReversedPath
             THEN [kind |-> "lines",
                   lines |-> << <<53,122,50,120,55,97,36,98,57,99,33,49,10>> >>]
        ELSE IF path = NestedPath THEN [kind |-> "beneath_file"]
        ELSE [kind |-> "absent"]]

\* os.path.exists(path)
Exists(fs, path) == fs[path].kind \notin {"absent", "beneath_file"}

\* the error open(path, 'r') raises, "none" when the file opens
OpenError(fs, path) ==
    CASE fs[path].kind = "absent"       -> "FileNotFoundError"
      [] fs[path].kind = "beneath_file" -> "NotADirectoryError"
      [] OTHER                          -> "none"

(***************************************************************************)
(* Construction (__init__, _load_dictionary)                               *)
(***************************************************************************)
\* the value of self.dictionary_words after _load_dictionary, and the error
\* the call lets through: only FileNotFoundError is caught (line 65)
_load_dictionary(dictionary_file, fs) ==
    IF dictionary_file = NoPath THEN [words |-> {}, error |-> "none"]
    ELSE IF OpenError(fs, dictionary_file) = "FileNotFoundError"
         THEN [words |-> {}, error |-> "none"]
    ELSE IF OpenError(fs, dictionary_file) # "none"
         THEN [words |-> {}, error |-> OpenError(fs, dictionary_file)]
    ELSE LET lines == fs[dictionary_file].lines
         IN  [words |-> {Lower(Strip(lines[i])) :
                            i \in {j \in 1..Len(lines) : Strip(lines[j]) # <<>>}},
              error |-> "none"]

\* the orders in which a set object can be iterated
IterationOrders(S) ==
    {order \in [1..Cardinality(S) -> S] :
        \A i, j \in 1..Cardinality(S) : order[i] = order[j] => i = j}

\* the instances __init__(dictionary_file) can build on the file system fs:
\* the attributes of self when __init__ ends, and the error it ended with
\* ("none" when the caller gets the instance)
Constructed(dictionary_file, fs) ==
    LET loaded == IF dictionary_file # NoPath
                  THEN _load_dictionary(dictionary_file, fs)
                  ELSE [words |-> {}, error |-> "none"]
    IN  { [ dictionary_file   |-> dictionary_file,
            dictionary_words  |-> loaded.words,
            dictionary_iter   |-> order,
            common_passwords  |-> _load_common_passwords,
            keyboard_patterns |-> _load_keyboard_patterns,
            raised            |-> loaded.error ] :
          order \in IterationOrders(loaded.words) }

(***************************************************************************)
(* Export (export_report)                                                  *)
(***************************************************************************)
FormatJson == <<106,115,111,110>>     \* json
FormatTxt == <<116,120,116>>          \* txt

\* str.encode('utf-8') fails on a surrogate code point
Utf8Encodable(s) == \A i \in 1..Len(s) : s[i] \notin 55296..57343

\* every string of the JSON document can be encoded
JsonEncodable(report) ==
    LET pd == report.patterns_detected
        dc == report.dictionary_check
    IN  /\ \A k \in DOMAIN pd \ {"common_patterns"} :
               \A i \in 1..Len(pd[k]) : Utf8Encodable(pd[k][i])
        /\ \A k \in DOMAIN dc \ BoolKeys :
               \A i \in 1..Len(dc[k]) : Utf8Encodable(dc[k][i])

\* every interpolated part of the text report can be encoded
TextEncodable(lines) ==
    \A i \in 1..Len(lines) : \A j \in 1..Len(lines[i]) :
        "cp" \in DOMAIN lines[i][j] => Utf8Encodable(lines[i][j].cp)

\* a faulty variant: the file is opened for writing before the format is
\* looked at
export_report_open_first(fs, report, filename, format) ==
    IF Lower(format) = FormatJson
    THEN IF JsonEncodable(report)
         THEN [files  |-> [fs EXCEPT ![filename] =
                              [kind |-> "json", doc |-> json_dump(report)]],
               status |-> "written", error |-> "none"]
         ELSE [files  |-> [fs EXCEPT ![filename] = [kind |-> "truncated"]],
               status |-> "raised", error |-> "UnicodeEncodeError"]
    ELSE IF Lower(format) = FormatTxt
    THEN IF TextEncodable(_format_text_report(report))
         THEN [files  |-> [fs EXCEPT ![filename] =
                              [kind |-> "text", lines |-> _format_text_report(report)]],
               status |-> "written", error |-> "none"]
         ELSE [files  |-> [fs EXCEPT ![filename] = [kind |-> "text", lines |-> <<>>]],
               status |-> "raised", error |-> "UnicodeEncodeError"]
    ELSE [files  |-> [fs EXCEPT ![filename] = [kind |-> "text", lines |-> <<>>]],
          status |-> "raised", error |-> "ValueError"]

\* the file system after export_report(report, filename, format), and how the
\* call ended.  open(filename, 'w') creates or empties the file; when a string
\* cannot be encoded the write fails and leaves the start of the JSON document
\* up to that string (kind "truncated"), or an empty text file
export_report(fs, report, filename, format) ==
    IF Lower(format) = FormatJson
    THEN IF JsonEncodable(report)
         THEN [files  |-> [fs EXCEPT ![filename] =
                              [kind |-> "json", doc |-> json_dump(report)]],
               status |-> "written", error |-> "none"]
         ELSE [files  |-> [fs EXCEPT ![filename] = [kind |-> "truncated"]],
               status |-> "raised", error |-> "UnicodeEncodeError"]
    ELSE IF Lower(format) = FormatTxt
    THEN IF TextEncodable(_format_text_report(report))
         THEN [files  |-> [fs EXCEPT ![filename] =
                              [kind |-> "text", lines |-> _format_text_report(report)]],
               status |-> "written", error |-> "none"]
         ELSE [files  |-> [fs EXCEPT ![filename] = [kind |-> "text", lines |-> <<>>]],
               status |-> "raised", error |-> "UnicodeEncodeError"]
    ELSE [files |-> fs, status |-> "raised", error |-> "ValueError"]

\* a faulty variant: analyze adds the password it has seen to the common
\* passwords
analyze_self_learning(self, password) ==
    [self EXCEPT !.common_passwords = @ \cup {Lower(password)}]

\* a faulty variant: export_report drops the dictionary
export_self_clearing(self) ==
    [self EXCEPT !.dictionary_words = {}, !.dictionary_iter = <<>>]

\* the instance after analyze / export_report: neither assigns an attribute of
\* self nor changes one of its collections
analyze_self(self, password) == self
export_self(self) == self

(***************************************************************************)
(* Inputs                                                                  *)
(***************************************************************************)
PwPassword123 == <<112,97,115,115,119,111,114,100,49,50,51>>   \* password123
PwPassword == <<112,97,115,115,119,111,114,100>>               \* password
\* three backslashes and "passwords": a run that JSON must escape, and two
\* words of the word list
PwSession == <<92,92,92,112,97,115,115,119,111,114,100,115>>
\* "aA1!" 39 times: 156 characters of four classes, 1024.9 bits
PwLong == Repeat(<<97,65,49,33>>, 39)
\* three times U+D800, a surrogate code point on its own
PwSurrogates == <<55296,55296,55296>>

\* 22 characters of the four ASCII classes with nothing to find (src/demo.py),
\* the same with a non-ASCII letter, with a letter sequence, and with a year
PwRandom22 == <<97,66,51,36,107,76,57,109,78,50,112,81,55,114,84,53,118,87,56,120,89,49>>
Passwords22 ==
    {PwRandom22,
     [PwRandom22 EXCEPT ![22] = 233],
     [PwRandom22 EXCEPT ![20] = 97, ![21] = 98, ![22] = 99],
     [PwRandom22 EXCEPT ![18] = 49, ![19] = 57, ![20] = 56, ![21] = 55, ![22] = 33]}

\* the passwords analysed: samples, and every string of a and 1 up to MaxLen
Passwords ==
    {<<>>, PwPassword123, PwPassword, PwSession, PwLong, PwSurrogates,
     <<112,97,115,115,119,111,114,100,115>>,        \* passwords
     <<97,98,99,8364,8364,8364,8364>>,              \* abc + 4 euro signs
     <<92,92,92>>,                                  \* three backslashes
     <<84,101,115,116,49,50,51,33>>,                \* Test123!
     <<80,64,115,115,119,48,114,100>>,              \* P@ssw0rd
     <<97,97,97,49,49,49>>}                         \* aaa111
    \cup SeqsUpTo({97, 49}, MaxLen)

\* the passwords of a session in which reports are kept and exported
SessionPasswords == {<<>>, PwSession, PwSurrogates}

Formats == {FormatJson, FormatTxt,
            <<120,109,108>>,          \* xml
            <<74,83,79,78>>}          \* JSON

\* the dictionary_file arguments of the sessions
DictionaryFiles == {NoPath, DictPath}
Times == 0..MaxTime

(***************************************************************************)
(* The sequential caller: analyze, keep the report, export it              *)
(***************************************************************************)
NoCall == [status |-> "none"]
NoExport == [format |-> <<>>, filename |-> NoPath, status |-> "none", error |-> "none"]
NoThreads == <<>>

\* an outcome without the timestamp of its report
SansTimestamp(outcome) ==
    IF outcome.status = "returned"
    THEN [outcome EXCEPT !.report.timestamp = <<>>]
    ELSE outcome

\* checker = PasswordStrengthChecker(dictionary_file)
InitChecker(dictionary_files) ==
    /\ files = InitialFiles
    /\ \E dictionary_file \in dictionary_files :
           checker \in Constructed(dictionary_file, files)
    /\ last = [password |-> <<>>, outcome |-> NoCall]
    /\ export = NoExport
    /\ remembered = [password |-> <<>>, outcome |-> NoCall]
    /\ formatted = NoCall

Init == InitChecker(DictionaryFiles) /\ threads = NoThreads

\* report = checker.analyze(password), on an instance the caller got
Analyze(password, now) ==
    /\ checker.raised = "none"
    /\ last' = [password |-> password, outcome |-> analyze(checker, password, now)]
    /\ checker' = analyze_self(checker, password)
    /\ export' = NoExport
    /\ UNCHANGED <<files, remembered, threads, formatted>>

\* results.append(report): the caller keeps the outcome of the call
Keep ==
    /\ last.outcome.status # "none"
    /\ remembered' = [password |-> last.password, outcome |-> last.outcome]
    /\ UNCHANGED <<files, checker, last, export, threads, formatted>>

\* checker.export_report(report, filename, format)
Export(filename, format) ==
    /\ last.outcome.status = "returned"
    /\ LET done == export_report(files, last.outcome.report, filename, format)
       IN  /\ files' = done.files
           /\ export' = [format |-> format, filename |-> filename,
                         status |-> done.status, error |-> done.error]
    /\ checker' = export_self(checker)
    /\ UNCHANGED <<last, remembered, threads, formatted>>

\* a session: analyze, keep the report, export it
Next ==
    \/ \E password \in SessionPasswords, now \in Times : Analyze(password, now)
    \/ Keep
    \/ \E format \in Formats : Export(OutPath, format)

Spec == Init /\ [][Next]_vars

\* analyses only, over every password of the model
NextAnalyze == \E password \in Passwords, now \in Times : Analyze(password, now)

InitAnalyze ==
    InitChecker({NoPath, MissingPath, NestedPath, DictPath}) /\ threads = NoThreads

SpecAnalyze == InitAnalyze /\ [][NextAnalyze]_vars

\* passwords that hold the patterns _detect_patterns looks for
PatternPasswords ==
    {PwPassword123,
     <<120,49,50,52,121,56,57,48>>,                 \* x124y890
     <<49,50,51,53>>,                               \* 1235
     <<49,50,51,97,52,53,54,55>>,                   \* 123a4567
     <<65,49,50,51,52,53,54,55,56,57>>,             \* A123456789
     <<49,50,51,52,53,54,113,119,101,114,116,121>>, \* 123456qwerty
     <<49,47,50,47,51,52,32,50,48,50,52>>,          \* 1/2/34 2024
     <<81,119,101,114,116,121,49,50>>,              \* Qwerty12
     <<97,98,99,88,89,90>>,                         \* abcXYZ
     <<97,97,97,97,10,10,10>>,                      \* aaaa\n\n\n
     <<50,48,50,52,45,49,45,49,53>>,                \* 2024-1-15
     <<120,121,50,48,50,52>>,                       \* xy2024
     <<97,49,47,50,47,51,52>>,                      \* a1/2/34
     <<80,64,115,115,119,48,114,100,50,48,50,53,33,83,101,99,117,114,101>>, \* P@ssw0rd2025!Secure
     <<113,119,101,114,116,121,49,50,51>>,          \* qwerty123
     <<97,98,99,100,101,102,103,104>>,              \* abcdefgh
     <<49,50,47,51,49,47,49,57,57,57>>,             \* 12/31/1999
     <<97,97,97,49,49,49>>}                         \* aaa111

\* the passwords analysed for what is found in them
SamplePasswords ==
    Passwords22 \cup PatternPasswords \cup SeqsUpTo({97, 49}, MaxLen + 1)
    \cup {<<49,33,67,57,98,36,97,55,120,50,122,53>>,  \* 1!C9b$a7x2z5
          PwPassword,
          <<119,111,114,100>>}                        \* word

\* the engines of the samples: without a dictionary and with either word list
InitSamples == InitChecker({NoPath, DictPath, ReversedPath}) /\ threads = NoThreads

\* analyses of the samples; the clock reading plays no part in the findings
NextSamples == \E password \in SamplePasswords : Analyze(password, 0)

SpecSamples == InitSamples /\ [][NextSamples]_vars

\* password lengths on both sides of every step of the length score
LengthSteps == {7, 8, 11, 12, 15, 16, 19, 20}

\* passwords analysed in pairs: the same class at every length step, two
\* classes at two lengths, strings that differ in holding a date, and strings
\* at both ends of the dictionary, pattern and diversity scores
PairPasswords ==
    {Repeat(<<97>>, n) : n \in LengthSteps}
    \cup {Repeat(<<97,49>>, 4), Repeat(<<97,49>>, 6),
          <<120,121,50,48,50,52>>,                  \* xy2024
          <<120,121,50,48,122,52>>,                 \* xy20z4
          <<97,49,47,50,47,51,52>>,                 \* a1/2/34
          <<97,49,47,50,47,51,98>>,                 \* a1/2/3b
          PwPassword,
          <<97,98,99,49,50,51,52,53,54,97,97,97>>,  \* abc123456aaa
          PwRandom22,
          [PwRandom22 EXCEPT ![22] = 233]}          \* ... with e acute

\* two analyses on an engine built without a dictionary, the first one kept
InitPairs == InitChecker({NoPath}) /\ threads = NoThreads

\* the clock reading plays no part in what the pairs are compared on
NextPairs ==
    \/ \E password \in PairPasswords : Analyze(password, 0)
    \/ Keep

SpecPairs == InitPairs /\ [][NextPairs]_vars

\* durations on, just below, just above and half a unit above every threshold
\* of format_time, at each of the four rates
TimeSamples ==
    LET thresholds == {<<1>>, <<6,0>>, <<3,6,0,0>>, <<8,6,4,0,0>>,
                       <<3,1,5,3,6,0,0,0>>, <<3,1,5,3,6,0,0,0,0,0>>}
        rates      == {online_brute_force, offline_cpu, offline_gpu, cloud_cracking}
        Zeros(n)   == [i \in 1..n |-> 0]
        Around(threshold, rate) ==
            LET on == threshold \o Zeros(rate)
            IN  {on, BigPred(on), [on EXCEPT ![Len(on)] = 1],
                 BigTimes(threshold, <<1,5>>) \o Zeros(rate - 1)}
    IN  UNION {{[num |-> num, below |-> below, exp10 |-> rate] :
                    num \in Around(threshold, rate), below \in BOOLEAN} :
               threshold \in thresholds, rate \in rates}

\* format_time(seconds), as _estimate_cracking_time calls it (lines 336-340)
FormatTime(seconds) ==
    /\ formatted' = [status |-> "returned", seconds |-> seconds,
                     text |-> format_time(seconds)]
    /\ UNCHANGED <<files, checker, last, export, remembered, threads>>

\* durations of chosen sizes, and the durations of analysed passwords
NextTimes ==
    \/ \E seconds \in TimeSamples : FormatTime(seconds)
    \/ \E password \in {<<49>>,                           \* 1
                         <<97,98,99,88,89,90>>,            \* abcXYZ
                         <<81,119,101,114,116,121,49,50>>} \* Qwerty12
           : Analyze(password, 0)

SpecTimes == InitPairs /\ [][NextTimes]_vars

(***************************************************************************)
(* Concurrent callers: every thread runs analyze on the shared instance,   *)
(* one statement of analyze (lines 78-108) per step                        *)
(***************************************************************************)
Threads == 1..NumThreads

NoLocals == <<>>

\* a faulty variant: the value is kept in one place shared by all the calls
\* (an attribute of self) instead of a local variable
StoreShared(ths, t, name, value) ==
    [u \in DOMAIN ths |->
        [ths[u] EXCEPT !.locals = [k \in DOMAIN @ \cup {name} |->
                                      IF k = name THEN value ELSE @[k]]]]

\* an assignment to a local variable of the call of thread t
StoreLocal(ths, t, name, value) ==
    [ths EXCEPT ![t].locals = [k \in DOMAIN @ \cup {name} |->
                                  IF k = name THEN value ELSE @[k]]]
\* the local variables of the call of thread t
Locals(ths, t) == ths[t].locals

InitConc ==
    /\ InitChecker(DictionaryFiles)
    /\ threads = [t \in Threads |-> [pc |-> "idle", password |-> <<>>,
                                     locals |-> NoLocals, outcome |-> NoCall]]

\* a statement that assigns the local `name` and falls through to `next`
Assign(t, at, name, value, next) ==
    /\ threads[t].pc = at
    /\ threads' = [StoreLocal(threads, t, name, value) EXCEPT ![t].pc = next]
    /\ UNCHANGED <<files, checker, last, export, remembered, formatted>>

\* the call returns or raises: its frame is dropped
Finish(t, at, outcome) ==
    /\ threads[t].pc = at
    /\ threads' = [threads EXCEPT ![t] =
                      [pc |-> "done", password |-> @.password,
                       locals |-> NoLocals, outcome |-> outcome]]
    /\ UNCHANGED <<files, checker, last, export, remembered, formatted>>

\* checker.analyze(password) is entered
Call(t, password) ==
    /\ threads[t].pc \in {"idle", "done"}
    /\ threads' = [threads EXCEPT ![t] =
                      [pc |-> "L78", password |-> password,
                       locals |-> NoLocals, outcome |-> NoCall]]
    /\ UNCHANGED <<files, checker, last, export, remembered, formatted>>

\* line 78-79: if not password: return self._empty_report()
ReturnEmpty(t, now) ==
    /\ threads[t].password = <<>>
    /\ Finish(t, "L78", Returned(_empty_report(now)))

\* line 82: length = len(password)
StepLength(t) ==
    /\ threads[t].password # <<>>
    /\ Assign(t, "L78", "length", Len(threads[t].password), "L83")

\* line 83
StepCharacters(t) ==
    Assign(t, "L83", "char_analysis",
           _analyze_characters(threads[t].password), "L84")

\* line 84
StepPatterns(t) ==
    Assign(t, "L84", "patterns",
           _detect_patterns(threads[t].password, checker.keyboard_patterns), "L85")

\* line 85
StepDictionary(t) ==
    Assign(t, "L85", "dictionary_check",
           _check_dictionary(checker, threads[t].password), "L86")

\* line 86
StepEntropy(t) ==
    Assign(t, "L86", "entropy",
           _calculate_entropy(threads[t].password, Locals(threads, t).char_analysis),
           "L87")

\* line 87: 2 ** entropy overflows and the call raises
RaiseOverflow(t) ==
    /\ threads[t].pc = "L87"
    /\ Pow2Overflows(Locals(threads, t).entropy)
    /\ Finish(t, "L87", Raised("OverflowError"))

\* line 87
StepCrackingTime(t) ==
    /\ threads[t].pc = "L87"
    /\ ~Pow2Overflows(Locals(threads, t).entropy)
    /\ Assign(t, "L87", "cracking_time",
              _estimate_cracking_time(Locals(threads, t).entropy), "L88")

\* line 88
StepScore(t) ==
    LET l == Locals(threads, t)
    IN  Assign(t, "L88", "score",
               _calculate_score(l.length, l.char_analysis, l.patterns,
                                l.dictionary_check, l.entropy), "L89")

\* line 89
StepCategory(t) ==
    Assign(t, "L89", "category",
           _categorize_strength(Locals(threads, t).score), "L92")

\* lines 92-108: the report is built from the locals and returned
ReturnReport(t, now) ==
    LET l == Locals(threads, t)
    IN  Finish(t, "L92", Returned(
          [ password           |-> Repeat(<<42>>, Len(threads[t].password)),
            length             |-> l.length,
            entropy_bits       |-> Round2(EntropyMicro(l.entropy)),
            score              |-> RoundScore(l.score),
            category           |-> l.category,
            cracking_time      |-> l.cracking_time,
            character_analysis |-> l.char_analysis,
            patterns_detected  |-> l.patterns,
            dictionary_check   |-> l.dictionary_check,
            recommendations    |-> _generate_recommendations(l.length,
                                       l.char_analysis, l.patterns,
                                       l.dictionary_check, l.entropy, l.score),
            timestamp          |-> IsoFormat(now) ]))

NextConc ==
    \E t \in Threads :
        \/ \E password \in {<<>>, PwPassword, PwLong} : Call(t, password)
        \/ \E now \in Times : ReturnEmpty(t, now)
        \/ StepLength(t)
        \/ StepCharacters(t)
        \/ StepPatterns(t)
        \/ StepDictionary(t)
        \/ StepEntropy(t)
        \/ RaiseOverflow(t)
        \/ StepCrackingTime(t)
        \/ StepScore(t)
        \/ StepCategory(t)
        \/ \E now \in Times : ReturnReport(t, now)

SpecConc == InitConc /\ [][NextConc]_vars

(***************************************************************************)
(* Properties of analyze                                                   *)
(***************************************************************************)
\* C1: for a non-empty password p, no string of the report (the entries of
\* the patterns_detected lists, of dictionary_words_found and of
\* substitutions_detected) equals p or its case-folded form; only the mask and
\* the length derive from p.
C1_NoRawPassword ==
    (last.outcome.status = "returned" /\ last.password # <<>>) =>
        LET report  == last.outcome.report
            lists   == {report.patterns_detected.sequential_digits,
                        report.patterns_detected.sequential_letters,
                        report.patterns_detected.repetitive_chars,
                        report.patterns_detected.keyboard_patterns,
                        report.patterns_detected.date_patterns,
                        report.dictionary_check.dictionary_words_found,
                        report.dictionary_check.substitutions_detected}
            strings == UNION {{list[i] : i \in 1..Len(list)} : list \in lists}
        IN  /\ last.password \notin strings
            /\ Lower(last.password) \notin strings
            /\ report.password = Repeat(<<42>>, Len(last.password))
            /\ report.length = Len(last.password)

\* C2: analyze returns a report and never raises, whatever the length and the
\* characters of the password (the 2 ** entropy step included).
C2_NeverRaises == last.outcome.status # "raised"

\* C3: the reported score (rounded to 2 decimals) lies in 0..100 and the
\* category is the label of the band that holds the reported score:
\* < 30 Very Weak, < 50 Weak, < 70 Medium, < 90 Strong, else Very Strong.
C3_CategoryOfReportedScore ==
    last.outcome.status = "returned" =>
        LET h == last.outcome.report.score.h        \* hundredths
        IN  /\ h \in 0..10000
            /\ last.outcome.report.category =
                  (IF h < 3000 THEN "Very Weak"
                   ELSE IF h < 5000 THEN "Weak"
                   ELSE IF h < 7000 THEN "Medium"
                   ELSE IF h < 9000 THEN "Strong"
                   ELSE "Very Strong")

\* C4: on one instance, whatever calls came before, two calls analyze(p) with
\* the same password end the same way with reports equal in every field but
\* the timestamp (list orders included): the outcome the caller kept from an
\* earlier call equals the outcome of the latest call on the same password.
C4_SameReportTwice ==
    (/\ remembered.outcome.status # "none"
     /\ last.outcome.status # "none"
     /\ remembered.password = last.password) =>
        SansTimestamp(remembered.outcome) = SansTimestamp(last.outcome)

\* two calls on the same password at different clock readings, an export in
\* between, on an instance whose dictionary scan finds two words
C4_Witness ==
    /\ remembered.password = PwSession
    /\ last.password = PwSession
    /\ remembered.outcome.status = "returned"
    /\ last.outcome.status = "returned"
    /\ remembered.outcome.report.timestamp # last.outcome.report.timestamp
    /\ files[OutPath].kind # "absent"
    /\ Len(last.outcome.report.dictionary_check.dictionary_words_found) = 2

\* C5: analyze("") returns the empty-report sentinel: length 0, entropy_bits
\* 0.0, score 0.0, category 'Very Weak', the single recommendation 'Please
\* enter a password to analyze', and no analyzer result (the four sub-dicts
\* are empty).
C5_EmptyPasswordSentinel ==
    (last.outcome.status # "none" /\ last.password = <<>>) =>
        /\ last.outcome.status = "returned"
        /\ LET report == last.outcome.report
           IN  /\ report.password = <<>>
               /\ report.length = 0
               /\ report.entropy_bits = [kind |-> "float", h |-> 0]
               /\ report.score = [kind |-> "float", h |-> 0]
               /\ report.category = "Very Weak"
               /\ report.recommendations =
                      << <<Lit("Please enter a password to analyze")>> >>
               /\ report.cracking_time = EmptyDict
               /\ report.character_analysis = EmptyDict
               /\ report.patterns_detected = EmptyDict
               /\ report.dictionary_check = EmptyDict

\* analyze("") has returned on an instance that loaded a dictionary
C5_Witness ==
    /\ last.outcome.status = "returned"
    /\ last.password = <<>>
    /\ checker.dictionary_words # {}
    /\ last.outcome.report.timestamp = IsoFormat(MaxTime)

\* C6 as stated: with no dictionary supplied, analyze("password123") reports
\* is_common_password = false.
C6_NotCommon ==
    (/\ last.outcome.status = "returned"
     /\ last.password = PwPassword123
     /\ checker.dictionary_file = NoPath) =>
        last.outcome.report.dictionary_check.is_common_password = FALSE

\* C6 amended: with no dictionary supplied, analyze("password123") reports
\* is_common_password = true, 'password123' being a member of the built-in
\* common-password set, and lists it first in dictionary_words_found.
C6_IsCommon ==
    (/\ last.outcome.status # "none"
     /\ last.password = PwPassword123
     /\ checker.dictionary_file = NoPath) =>
        /\ last.outcome.status = "returned"
        /\ PwPassword123 \in checker.common_passwords
        /\ last.outcome.report.dictionary_check.is_common_password = TRUE
        /\ last.outcome.report.dictionary_check.dictionary_words_found
              = <<PwPassword123>>

C6_Witness ==
    /\ last.outcome.status = "returned"
    /\ last.password = PwPassword123
    /\ checker.dictionary_file = NoPath
    /\ checker.dictionary_words = {}
    /\ last.outcome.report.dictionary_check.is_common_password

(***************************************************************************)
(* Properties of export_report                                             *)
(***************************************************************************)
\* C7 as stated: export_report with any format value other than 'json' or
\* 'txt' fails with the unsupported-format error (and writes nothing).
C7_OnlyJsonAndTxt ==
    (export.status # "none" /\ export.format \notin {FormatJson, FormatTxt}) =>
        (export.status = "raised" /\ export.error = "ValueError")

\* C7 amended: export_report with a format whose lower-cased value is neither
\* 'json' nor 'txt' (e.g. 'xml') raises ValueError and leaves the file system
\* unchanged: the target is neither created nor truncated nor written.
C7_UnsupportedFormat ==
    [][ (/\ export'.status # "none"
         /\ Lower(export'.format) \notin {FormatJson, FormatTxt}) =>
            (/\ export'.status = "raised"
             /\ export'.error = "ValueError"
             /\ files' = files) ]_vars

\* an export as 'xml' has failed after an earlier export wrote the same file,
\* which still holds the earlier document
C7_Witness ==
    /\ export.status = "raised"
    /\ export.error = "ValueError"
    /\ export.format = <<120,109,108>>
    /\ export.filename = OutPath
    /\ files[OutPath].kind = "json"
    /\ json_load(files[OutPath].doc) = last.outcome.report

\* C8: for every report analyze can return (the empty-password sentinel
\* included), export_report(r, path, 'json') writes a file whose parse equals
\* r in every field: same nesting, same list orders, same timestamp string.
C8_JsonRoundTrip ==
    (export.status # "none" /\ Lower(export.format) = FormatJson) =>
        /\ export.status = "written"
        /\ files[export.filename].kind = "json"
        /\ json_load(files[export.filename].doc) = last.outcome.report

(***************************************************************************)
(* Properties of the shared instance                                       *)
(***************************************************************************)
\* C9: with analyze calls running concurrently on one instance, under every
\* interleaving of their statements, each call ends as it would when run
\* alone, with the same report but for the timestamp.
C9_ConcurrentAsAlone ==
    \A t \in Threads :
        threads[t].pc = "done" =>
            SansTimestamp(threads[t].outcome)
              = SansTimestamp(analyze(checker, threads[t].password, 0))

\* a call has returned its report while the call of another thread, on another
\* password, is between two of its statements
C9_Witness ==
    \E t, u \in Threads :
        /\ threads[t].pc = "done"
        /\ threads[t].outcome.status = "returned"
        /\ threads[t].password = PwPassword
        /\ threads[u].pc = "L87"
        /\ threads[u].password = PwLong

\* C10: every analyze call and every export_report call, successful or
\* failing, leaves common_passwords, keyboard_patterns and dictionary_words
\* as they were when construction finished.
C10_ReferenceDataUnchanged ==
    [][ /\ checker'.common_passwords = checker.common_passwords
        /\ checker'.keyboard_patterns = checker.keyboard_patterns
        /\ checker'.dictionary_words = checker.dictionary_words
        /\ checker'.dictionary_iter = checker.dictionary_iter ]_vars

\* after an analysis, an export that wrote a file and one that failed, the
\* instance holds the reference data of its construction
C10_Witness ==
    /\ last.password = PwSession
    /\ export.status = "raised"
    /\ files[OutPath].kind # "absent"
    /\ checker \in Constructed(DictPath, InitialFiles)
    /\ checker.dictionary_words # {}

(***************************************************************************)
(* Properties of construction                                              *)
(***************************************************************************)
\* C11: constructing the engine with a dictionary path that does not exist
\* does not fail: construction completes, dictionary_words is the empty set,
\* and every later analyze call returns the report (but for the timestamp) of
\* an engine constructed with no dictionary path.
C11_MissingPathAsNoPath ==
    (checker.dictionary_file # NoPath /\ ~Exists(files, checker.dictionary_file)) =>
        /\ checker.raised = "none"
        /\ checker.dictionary_words = {}
        /\ last.outcome.status # "none" =>
               \A plain \in Constructed(NoPath, files) :
                   SansTimestamp(last.outcome)
                     = SansTimestamp(analyze(plain, last.password, 0))

(***************************************************************************)
(* Properties of the score                                                 *)
(***************************************************************************)
\* C12: the length sub-score is the step function 0 (len < 8), 5 (8..11),
\* 10 (12..15), 13 (16..19), 15 (len >= 20), and for two passwords p and q
\* with the same character classes present and len(p) <= len(q) the length
\* sub-score of q is at least that of p.
C12_LengthScoreMonotone ==
    (remembered.outcome.status = "returned" /\ last.outcome.status = "returned") =>
        LET p == remembered.outcome.report
            q == last.outcome.report
            Flags(r) == <<r.character_analysis.has_lowercase,
                          r.character_analysis.has_uppercase,
                          r.character_analysis.has_digits,
                          r.character_analysis.has_symbols,
                          r.character_analysis.has_unicode>>
        IN  /\ LengthScore(q.length) =
                  (CASE q.length \in 0..7   -> 0
                     [] q.length \in 8..11  -> 5
                     [] q.length \in 12..15 -> 10
                     [] q.length \in 16..19 -> 13
                     [] OTHER               -> 15)
            /\ (Flags(p) = Flags(q) /\ p.length <= q.length) =>
                   LengthScore(p.length) <= LengthScore(q.length)

\* a password of 19 letters was analysed, then one of 20 letters: same
\* classes, and the length sub-score steps from 13 to 15
C12_Witness ==
    /\ remembered.outcome.status = "returned"
    /\ last.outcome.status = "returned"
    /\ remembered.password = Repeat(<<97>>, 19)
    /\ last.password = Repeat(<<97>>, 20)
    /\ remembered.outcome.report.character_analysis
         = [last.outcome.report.character_analysis EXCEPT !.lowercase_count = 19]
    /\ LengthScore(remembered.outcome.report.length) = 13
    /\ LengthScore(last.outcome.report.length) = 15

\* C13: every 22-character password that contains lowercase, uppercase, digit
\* and symbol characters and produces no dictionary finding (the four flags
\* false) and no pattern finding has a score of at least 90 and the category
\* 'Very Strong'.
C13_Random22VeryStrong ==
    LET report == last.outcome.report
        pd == report.patterns_detected
        dc == report.dictionary_check
        ca == report.character_analysis
    IN  (/\ last.outcome.status = "returned"
         /\ report.length = 22
         /\ ca.has_lowercase /\ ca.has_uppercase /\ ca.has_digits /\ ca.has_symbols
         /\ ~dc.is_common_password /\ ~dc.contains_dictionary_word
         /\ ~dc.contains_reversed_word /\ ~dc.contains_substituted_word
         /\ \A k \in DOMAIN pd : pd[k] = <<>>) =>
            /\ report.score.h >= 9000
            /\ report.category = "Very Strong"

\* the random 22-character password of the demonstration has been analysed on
\* an engine with a dictionary: nothing found, score 96.0
C13_Witness ==
    /\ last.outcome.status = "returned"
    /\ last.password = PwRandom22
    /\ checker.dictionary_words # {}
    /\ last.outcome.report.dictionary_check.dictionary_words_found = <<>>
    /\ \A k \in DOMAIN last.outcome.report.patterns_detected :
           last.outcome.report.patterns_detected[k] = <<>>
    /\ last.outcome.report.score = [kind |-> "float", h |-> 9600]

(***************************************************************************)
(* Properties of the findings                                              *)
(***************************************************************************)
\* C14: for every password the report's entropy_bits is at least 0, and it is
\* exactly 0 for the empty password; for a non-empty password the alphabet is
\* never empty, so that no logarithm of 0 is taken.
C14_EntropyNotNegative ==
    last.outcome.status = "returned" =>
        LET report == last.outcome.report
        IN  /\ report.entropy_bits.h >= 0
            /\ last.password = <<>> => report.entropy_bits = [kind |-> "float", h |-> 0]
            /\ last.password # <<>> =>
                   /\ report.character_analysis.character_set_size > 0
                   /\ report.entropy_bits.h > 0

\* the empty password has been analysed, on an engine whose dictionary file
\* was missing: 0.0 bits
C14_Witness ==
    /\ last.outcome.status = "returned"
    /\ last.password = <<>>
    /\ checker.dictionary_file = MissingPath
    /\ last.outcome.report.entropy_bits = [kind |-> "float", h |-> 0]
    /\ last.outcome.report.character_analysis = EmptyDict

\* C15: the character classes are mutually exclusive per character: each
\* character counts in exactly one of lowercase (a-z), uppercase (A-Z), digit
\* (0-9), symbol (non-alphanumeric printable ASCII) or unicode (code point
\* above 127).  In particular a password whose only non-alphanumeric
\* characters are non-ASCII has has_unicode = true and has_symbols = false,
\* and its alphabet size gains 100, not 133.
C15_ClassesExclusive ==
    (last.outcome.status = "returned" /\ last.password # <<>>) =>
        LET p  == last.password
            ca == last.outcome.report.character_analysis
            lower   == {i \in 1..Len(p) : p[i] \in 97..122}
            upper   == {i \in 1..Len(p) : p[i] \in 65..90}
            digit   == {i \in 1..Len(p) : p[i] \in 48..57}
            unicode == {i \in 1..Len(p) : p[i] > 127}
            symbol  == {i \in 1..Len(p) : p[i] \in 32..126} \ (lower \cup upper \cup digit)
        IN  /\ ca.has_lowercase = (lower # {})
            /\ ca.has_uppercase = (upper # {})
            /\ ca.has_digits = (digit # {})
            /\ ca.has_symbols = (symbol # {})
            /\ ca.has_unicode = (unicode # {})
            /\ ca.lowercase_count = Cardinality(lower)
            /\ ca.uppercase_count = Cardinality(upper)
            /\ ca.digit_count = Cardinality(digit)
            /\ ca.symbol_count = Cardinality(symbol)
            /\ ca.character_set_size =
                  (IF lower # {} THEN 26 ELSE 0) + (IF upper # {} THEN 26 ELSE 0)
                  + (IF digit # {} THEN 10 ELSE 0) + (IF symbol # {} THEN 33 ELSE 0)
                  + (IF unicode # {} THEN 100 ELSE 0)

\* C16: sequential_digits holds exactly the maximal runs of 3 or more
\* consecutive digit characters of the password in which every digit is one
\* greater than the digit before it, in the order of the password: '123' of
\* 'password123' is listed, runs such as '124', '111' or '890' are not.
C16_SequentialDigits ==
    (last.outcome.status = "returned" /\ last.password # <<>>) =>
        LET p == last.password
            Digit(i) == i \in 1..Len(p) /\ IsDecimalDigit(p[i])
            runs == {r \in (1..Len(p)) \X (1..Len(p)) :
                        /\ r[1] + 2 <= r[2]
                        /\ \A k \in r[1]..r[2] : Digit(k)
                        /\ ~Digit(r[1] - 1) /\ ~Digit(r[2] + 1)
                        /\ \A k \in r[1]..(r[2] - 1) :
                               DigitValue(p[k + 1]) = DigitValue(p[k]) + 1}
            starts == SortedIn({r[1] : r \in runs}, 1, Len(p))
            End(i) == CHOOSE j \in 1..Len(p) : <<i, j>> \in runs
        IN  last.outcome.report.patterns_detected.sequential_digits
              = [n \in 1..Len(starts) |-> Slice(p, starts[n], End(starts[n]))]

\* '123a4567' has been analysed: its two ascending runs are listed
C16_Witness ==
    /\ last.outcome.status = "returned"
    /\ last.password = <<49,50,51,97,52,53,54,55>>
    /\ last.outcome.report.patterns_detected.sequential_digits
         = << <<49,50,51>>, <<52,53,54,55>> >>

\* C17: repetitive_chars holds, for every maximal run of 3 or more identical
\* consecutive characters of the password, one entry equal to the full run
\* (same character, same length), and nothing else; for 'aaa111' it is
\* ['aaa', '111'] while sequential_digits stays empty.
C17_RepetitiveRuns ==
    (last.outcome.status = "returned" /\ last.password # <<>>) =>
        LET p == last.password
            Same(i, c) == i \in 1..Len(p) /\ p[i] = c
            runs == {r \in (1..Len(p)) \X (1..Len(p)) :
                        /\ r[1] + 2 <= r[2]
                        /\ \A k \in r[1]..r[2] : p[k] = p[r[1]]
                        /\ ~Same(r[1] - 1, p[r[1]]) /\ ~Same(r[2] + 1, p[r[1]])}
            starts == SortedIn({r[1] : r \in runs}, 1, Len(p))
            End(i) == CHOOSE j \in 1..Len(p) : <<i, j>> \in runs
            pd == last.outcome.report.patterns_detected
        IN  /\ pd.repetitive_chars
                  = [n \in 1..Len(starts) |-> Slice(p, starts[n], End(starts[n]))]
            /\ p = <<97,97,97,49,49,49>> =>
                   /\ pd.repetitive_chars = << <<97,97,97>>, <<49,49,49>> >>
                   /\ pd.sequential_digits = <<>>

\* C18: keyboard_patterns holds every entry of the fixed 14-entry reference
\* list that is a substring of the case-folded password, each once and
\* nothing else, not just the longest: a password containing '123456789'
\* reports '123456', '12345678' and '123456789'; the case of the password
\* plays no part.
C18_EveryKeyboardPattern ==
    (last.outcome.status = "returned" /\ last.password # <<>>) =>
        LET p == last.password
            folded == [i \in 1..Len(p) |-> IF p[i] \in 65..90 THEN p[i] + 32 ELSE p[i]]
            ref == checker.keyboard_patterns
            kp == last.outcome.report.patterns_detected.keyboard_patterns
            Within(e) == \E at \in 0..(Len(p) - Len(e)) :
                             \A j \in 1..Len(e) : folded[at + j] = e[j]
            Listed(e) == \E n \in 1..Len(kp) : kp[n] = e
        IN  /\ Len(ref) = 14
            /\ \A i \in 1..Len(ref) : Listed(ref[i]) <=> Within(ref[i])
            /\ \A n \in 1..Len(kp) : \E i \in 1..Len(ref) : kp[n] = ref[i]
            /\ \A m, n \in 1..Len(kp) : kp[m] = kp[n] => m = n
            /\ Within(<<49,50,51,52,53,54,55,56,57>>) =>
                   /\ Listed(<<49,50,51,52,53,54>>)
                   /\ Listed(<<49,50,51,52,53,54,55,56>>)
                   /\ Listed(<<49,50,51,52,53,54,55,56,57>>)

\* 'A123456789' has been analysed: three entries of the list are reported
C18_Witness ==
    /\ last.outcome.status = "returned"
    /\ last.password = <<65,49,50,51,52,53,54,55,56,57>>
    /\ last.outcome.report.patterns_detected.keyboard_patterns
         = << <<49,50,51,52,53,54>>, <<49,50,51,52,53,54,55,56>>,
              <<49,50,51,52,53,54,55,56,57>> >>

\* C19 as stated: in each of the six pattern lists the entries appear in the
\* order in which their matches start in the password, left to right: a match
\* that starts earlier never comes after a match that starts later, in
\* keyboard_patterns and date_patterns too.  (The entries of common_patterns
\* are labels, all of the whole password; an entry of repetitive_chars is
\* taken by its character.)
C19_LeftToRight ==
    (last.outcome.status = "returned" /\ last.password # <<>>) =>
        LET p == last.password
            folded == [i \in 1..Len(p) |-> IF p[i] \in 65..90 THEN p[i] + 32 ELSE p[i]]
            pd == last.outcome.report.patterns_detected
            At(e, s, at) == /\ at + Len(e) - 1 <= Len(s)
                            /\ \A j \in 1..Len(e) : s[at + j - 1] = e[j]
            InOrder(list, s) ==
                \E f \in [1..Len(list) -> 1..Len(s)] :
                    /\ \A n \in 1..Len(list) : At(list[n], s, f[n])
                    /\ \A m, n \in 1..Len(list) : m < n => f[m] <= f[n]
            rc == pd.repetitive_chars
        IN  /\ InOrder(pd.sequential_digits, p)
            /\ InOrder(pd.sequential_letters, folded)
            /\ InOrder([n \in 1..Len(rc) |-> <<rc[n][1], rc[n][1], rc[n][1]>>], p)
            /\ InOrder(pd.keyboard_patterns, folded)
            /\ InOrder(pd.date_patterns, p)

\* C19 amended: sequential_digits, sequential_letters and repetitive_chars
\* list their entries in the order in which the matches start in the
\* password; keyboard_patterns lists its entries in the order of the
\* reference list; date_patterns lists the groups of four digits, left to
\* right, and after them the D/D/D dates, left to right; common_patterns
\* keeps the order 'All same character', 'All digits', 'All letters'.
C19_OrderPerCategory ==
    (last.outcome.status = "returned" /\ last.password # <<>>) =>
        LET p == last.password
            folded == [i \in 1..Len(p) |-> IF p[i] \in 65..90 THEN p[i] + 32 ELSE p[i]]
            pd == last.outcome.report.patterns_detected
            At(e, s, at) == /\ at + Len(e) - 1 <= Len(s)
                            /\ \A j \in 1..Len(e) : s[at + j - 1] = e[j]
            InOrder(list, s) ==
                \E f \in [1..Len(list) -> 1..Len(s)] :
                    /\ \A n \in 1..Len(list) : At(list[n], s, f[n])
                    /\ \A m, n \in 1..Len(list) : m < n => f[m] <= f[n]
            rc == pd.repetitive_chars
            kp == pd.keyboard_patterns
            dp == pd.date_patterns
            cp == pd.common_patterns
            ref == checker.keyboard_patterns
            labels == <<"All same character", "All digits", "All letters">>
            Index(e, list) == CHOOSE i \in 1..Len(list) : list[i] = e
            IsYear(e) == Len(e) = 4 /\ \A j \in 1..4 : IsDecimalDigit(e[j])
            IsDate(e) == \E j \in 1..Len(e) : e[j] \in {47, 45}
        IN  /\ InOrder(pd.sequential_digits, p)
            /\ InOrder(pd.sequential_letters, folded)
            /\ InOrder([n \in 1..Len(rc) |-> <<rc[n][1], rc[n][1], rc[n][1]>>], p)
            /\ \A m, n \in 1..Len(kp) : m < n => Index(kp[m], ref) < Index(kp[n], ref)
            /\ \E k \in 0..Len(dp) :
                   /\ \A n \in 1..k : IsYear(dp[n])
                   /\ \A n \in (k + 1)..Len(dp) : IsDate(dp[n])
                   /\ InOrder(SubSeq(dp, 1, k), p)
                   /\ InOrder(SubSeq(dp, k + 1, Len(dp)), p)
            /\ \A m, n \in 1..Len(cp) : m < n => Index(cp[m], labels) < Index(cp[n], labels)

\* '1/2/34 2024' has been analysed: the year, which starts at the eighth
\* character, is listed before the date, which starts at the first
C19_Witness ==
    /\ last.outcome.status = "returned"
    /\ last.password = <<49,47,50,47,51,52,32,50,48,50,52>>
    /\ last.outcome.report.patterns_detected.date_patterns
         = << <<50,48,50,52>>, <<49,47,50,47,51,52>> >>

\* C20: the score does not depend on date_patterns: two analyses that agree
\* on the length, the entropy, the diversity score, the four dictionary flags
\* and the emptiness of the five other pattern lists have the same score,
\* whether date_patterns is empty or not.
C20_DatesDoNotCount ==
    (remembered.outcome.status = "returned" /\ last.outcome.status = "returned") =>
        LET p == remembered.outcome.report
            q == last.outcome.report
            Flags(r) == <<r.dictionary_check.is_common_password,
                          r.dictionary_check.contains_dictionary_word,
                          r.dictionary_check.contains_reversed_word,
                          r.dictionary_check.contains_substituted_word>>
            others == {"sequential_digits", "sequential_letters", "repetitive_chars",
                       "keyboard_patterns", "common_patterns"}
        IN  (/\ p.length = q.length
             /\ p.entropy_bits = q.entropy_bits
             /\ p.character_analysis.diversity_score
                  = q.character_analysis.diversity_score
             /\ Flags(p) = Flags(q)
             /\ \A k \in others :
                    (p.patterns_detected[k] = <<>>) = (q.patterns_detected[k] = <<>>)) =>
                /\ p.score = q.score
                /\ p.category = q.category

\* 'xy2024', in which a year is found, was analysed and then 'xy20z4', in
\* which nothing is: both score 50.27
C20_Witness ==
    /\ remembered.outcome.status = "returned"
    /\ last.outcome.status = "returned"
    /\ remembered.password = <<120,121,50,48,50,52>>
    /\ last.password = <<120,121,50,48,122,52>>
    /\ remembered.outcome.report.patterns_detected.date_patterns = << <<50,48,50,52>> >>
    /\ last.outcome.report.patterns_detected.date_patterns = <<>>
    /\ remembered.outcome.report.score = [kind |-> "float", h |-> 5027]
    /\ last.outcome.report.score = [kind |-> "float", h |-> 5027]

\* C21: dictionary_words_found of a returned report holds no entry twice,
\* whatever the password and the dictionary, also when the case-folded
\* password is at once a common password and an exact dictionary word.
C21_WordsFoundDeduplicated ==
    (last.password # <<>> /\ last.outcome.status = "returned")
        => LET found == last.outcome.report.dictionary_check.dictionary_words_found
           IN  \A i, j \in 1..Len(found) : found[i] = found[j] => i = j

\* C22: every non-empty analysis tests the case-folded password with
\* @ 3 1 0 $ 7 replaced by a e i o s t against the dictionary set and the
\* common-password set, with or without a dictionary: contains_substituted_word
\* says whether it is in either, and substitutions_detected then holds it.
C22_SubstitutionAlwaysChecked ==
    (last.password # <<>> /\ last.outcome.status = "returned")
        => LET folded == Lower(last.password)
               plain  == [i \in 1..Len(folded) |->
                             CASE folded[i] = 64 -> 97
                               [] folded[i] = 51 -> 101
                               [] folded[i] = 49 -> 105
                               [] folded[i] = 48 -> 111
                               [] folded[i] = 36 -> 115
                               [] folded[i] = 55 -> 116
                               [] OTHER -> folded[i]]
               hit    == plain \in checker.dictionary_words
                                       \cup checker.common_passwords
               check  == last.outcome.report.dictionary_check
           IN  /\ check.contains_substituted_word = hit
               /\ check.substitutions_detected = IF hit THEN <<plain>> ELSE <<>>

\* 'P@ssw0rd' analysed without a dictionary is flagged with 'password'
C22_Witness ==
    /\ last.password = <<80,64,115,115,119,48,114,100>>
    /\ checker.dictionary_words = {}
    /\ last.outcome.status = "returned"
    /\ last.outcome.report.dictionary_check.contains_substituted_word
    /\ last.outcome.report.dictionary_check.substitutions_detected = <<PwPassword>>

\* C23: in every non-empty analysis the five sub-scores lie in their ranges
\* (length 0..15, entropy 0..30, diversity 0..20, dictionary 0..20, pattern
\* 0..15), the dictionary and pattern scores being the stacked penalties
\* floored at 0, and the reported score is the rounded sum of the five.
C23_SubScoresInRange ==
    (last.password # <<>> /\ last.outcome.status = "returned")
        => LET report    == last.outcome.report
               check     == report.dictionary_check
               found     == report.patterns_detected
               entropy   == [n |-> report.length,
                             base |-> report.character_analysis.character_set_size]
               length_score    == LengthScore(report.length)
               entropy_score   == EntropyScore(entropy)
               diversity_score == DiversityScore(report.character_analysis)
               dict_score      == DictScore(check)
               pattern_score   == PatternScore(found)
               dict_penalty    == (IF check.is_common_password THEN 15 ELSE 0)
                                + (IF check.contains_dictionary_word THEN 10 ELSE 0)
                                + (IF check.contains_reversed_word THEN 5 ELSE 0)
                                + (IF check.contains_substituted_word THEN 8 ELSE 0)
               pattern_penalty == (IF found.sequential_digits # <<>> THEN 5 ELSE 0)
                                + (IF found.sequential_letters # <<>> THEN 5 ELSE 0)
                                + (IF found.repetitive_chars # <<>> THEN 4 ELSE 0)
                                + (IF found.keyboard_patterns # <<>> THEN 6 ELSE 0)
                                + (IF found.common_patterns # <<>> THEN 3 ELSE 0)
           IN  /\ length_score \in 0..15
               /\ entropy_score >= 0 /\ entropy_score <= 30 * Million
               /\ diversity_score \in 0..20
               /\ dict_score \in 0..20
               /\ pattern_score \in 0..15
               /\ dict_score = IF dict_penalty > 20 THEN 0 ELSE 20 - dict_penalty
               /\ pattern_score = IF pattern_penalty > 15 THEN 0
                                  ELSE 15 - pattern_penalty
               /\ report.score.h
                    = ((length_score + diversity_score + dict_score + pattern_score)
                           * Million + entropy_score + 5000) \div 10000

\* 'password' was analysed (penalties 15 + 8 against 20: dictionary score 0),
\* then 'abc123456aaa' (penalties 5 + 5 + 4 + 6 against 15: pattern score 0)
C23_Witness ==
    /\ remembered.outcome.status = "returned"
    /\ last.outcome.status = "returned"
    /\ remembered.password = PwPassword
    /\ remembered.outcome.report.dictionary_check.is_common_password
    /\ remembered.outcome.report.dictionary_check.contains_substituted_word
    /\ DictScore(remembered.outcome.report.dictionary_check) = 0
    /\ remembered.outcome.report.score = [kind |-> "float", h |-> 2981]
    /\ last.password = <<97,98,99,49,50,51,52,53,54,97,97,97>>
    /\ \A k \in {"sequential_digits", "sequential_letters", "repetitive_chars",
                 "keyboard_patterns"} : last.outcome.report.patterns_detected[k] # <<>>
    /\ PatternScore(last.outcome.report.patterns_detected) = 0
    /\ last.outcome.report.score = [kind |-> "float", h |-> 5254]

\* C24: the recommendations of a non-empty analysis are never empty: they are
\* the messages of the conditions that hold, one each, in the order length <
\* 12; no lowercase, uppercase, digit, symbol; common password, dictionary
\* word, substitution; sequential digits, sequential letters, repetitive,
\* keyboard; entropy < 40.  The positive message appears if and only if no
\* condition holds, and is then the only entry.
C24_RecommendationsInOrder ==
    (last.password # <<>> /\ last.outcome.status = "returned")
        => LET report == last.outcome.report
               chars  == report.character_analysis
               check  == report.dictionary_check
               found  == report.patterns_detected
               bits   == EntropyMicro([n |-> report.length,
                                       base |-> chars.character_set_size])
               given  == report.recommendations
               positive == <<Lit("Password meets most security requirements. Keep it unique and don't reuse it!")>>
               rules  ==
                 << [holds |-> report.length < 12,
                     starts |-> "Increase password length to at least 12 characters (currently "],
                    [holds |-> ~chars.has_lowercase, starts |-> "Add lowercase letters"],
                    [holds |-> ~chars.has_uppercase, starts |-> "Add uppercase letters"],
                    [holds |-> ~chars.has_digits, starts |-> "Add numbers"],
                    [holds |-> ~chars.has_symbols,
                     starts |-> "Add special characters (!@#$%^&*)"],
                    [holds |-> check.is_common_password,
                     starts |-> "Avoid using common passwords - use a unique password"],
                    [holds |-> check.contains_dictionary_word,
                     starts |-> "Avoid dictionary words - use random combinations"],
                    [holds |-> check.contains_substituted_word,
                     starts |-> "Simple character substitutions (like @ for a) are easily detected"],
                    [holds |-> found.sequential_digits # <<>>,
                     starts |-> "Avoid sequential numbers (123, 1234, etc.)"],
                    [holds |-> found.sequential_letters # <<>>,
                     starts |-> "Avoid sequential letters (abc, abcd, etc.)"],
                    [holds |-> found.repetitive_chars # <<>>,
                     starts |-> "Avoid repetitive characters (aaa, 111, etc.)"],
                    [holds |-> found.keyboard_patterns # <<>>,
                     starts |-> "Avoid keyboard patterns (qwerty, asdf, etc.)"],
                    [holds |-> bits < 40 * Million,
                     starts |-> "Password has low entropy - add more randomness"] >>
               Holds(rule) == rule.holds
               due    == SelectSeq(rules, Holds)
           IN  /\ given # <<>>
               /\ (\E i \in 1..Len(given) : given[i] = positive) <=> due = <<>>
               /\ due = <<>> => given = <<positive>>
               /\ due # <<>> =>
                    /\ Len(given) = Len(due)
                    /\ \A i \in 1..Len(due) :
                          /\ given[i][1] = Lit(due[i].starts)
                          /\ Len(given[i]) = IF due[i] = rules[1] THEN 3 ELSE 1
                    /\ report.length < 12 =>
                          given[1][2] = Dyn(Digits(report.length))

\* 'password123' analysed on the engine loaded from words.txt: six conditions
\* hold, from the length to the sequential digits, and their messages come in
\* the fixed order
C24_Witness ==
    /\ last.password = PwPassword123
    /\ checker.dictionary_words # {}
    /\ last.outcome.status = "returned"
    /\ last.outcome.report.recommendations =
         << <<Lit("Increase password length to at least 12 characters (currently "),
              Dyn(<<49,49>>), Lit(")")>>,
            <<Lit("Add uppercase letters")>>,
            <<Lit("Add special characters (!@#$%^&*)")>>,
            <<Lit("Avoid using common passwords - use a unique password")>>,
            <<Lit("Avoid dictionary words - use random combinations")>>,
            <<Lit("Avoid sequential numbers (123, 1234, etc.)")>> >>

\* C25: a duration t (2^entropy / r for the rates r = 10, 10^6, 10^9, 10^12 of
\* a report) is shown as 'Instant' when t < 1, and otherwise as floor(t / u)
\* in the unit u of the first bound above t: seconds below 60, minutes below
\* 3600, hours below 86400, days below 31536000, years below 3153600000 and
\* years marked as centuries from there on; t on a bound goes to the higher unit.
C25_FloorInLargestUnit ==
    LET Shift(k, zeros) == IF k = <<0>> THEN k ELSE k \o [i \in 1..zeros |-> 0]
        LessBig(a, b) ==
            \/ Len(a) < Len(b)
            \/ /\ Len(a) = Len(b)
               /\ \E i \in 1..Len(a) :
                     a[i] < b[i] /\ \A j \in 1..(i - 1) : a[j] = b[j]
        \* t < k, for t the double next to num / 10^exp10
        Lt(t, k) == LessBig(IF t.below THEN BigPred(t.num) ELSE t.num,
                            Shift(k, t.exp10))
        Unit(t) == IF Lt(t, <<1>>) THEN "Instant"
                   ELSE IF Lt(t, <<6,0>>) THEN "seconds"
                   ELSE IF Lt(t, <<3,6,0,0>>) THEN "minutes"
                   ELSE IF Lt(t, <<8,6,4,0,0>>) THEN "hours"
                   ELSE IF Lt(t, <<3,1,5,3,6,0,0,0>>) THEN "days"
                   ELSE IF Lt(t, <<3,1,5,3,6,0,0,0,0,0>>) THEN "years"
                   ELSE "years (centuries)"
        Size(unit) == CASE unit \in {"Instant", "seconds"} -> <<1>>
                        [] unit = "minutes" -> <<6,0>>
                        [] unit = "hours"   -> <<3,6,0,0>>
                        [] unit = "days"    -> <<8,6,4,0,0>>
                        [] OTHER            -> <<3,1,5,3,6,0,0,0>>
        \* shown.n units <= t < shown.n + 1 units, in the unit of t
        Fits(t, shown) ==
            /\ shown.unit = Unit(t)
            /\ ~Lt(t, Shift(BigTimes(BigOfNat(shown.n.lead), Size(shown.unit)),
                            shown.n.more))
            /\ Lt(t, Shift(BigTimes(BigOfNat(shown.n.lead + 1), Size(shown.unit)),
                           shown.n.more))
            /\ shown.unit = "Instant" => shown.n.lead = 0
    IN  /\ formatted # NoCall => Fits(formatted.seconds, formatted.text)
        /\ (last.password # <<>> /\ last.outcome.status = "returned") =>
              LET report == last.outcome.report
                  combinations ==
                      Combinations([n |-> report.length,
                                    base |-> report.character_analysis.character_set_size])
                  T(exp10) == [num |-> combinations.num, below |-> combinations.below,
                               exp10 |-> exp10]
              IN  /\ Fits(T(1), report.cracking_time.online_brute_force)
                  /\ Fits(T(6), report.cracking_time.offline_cpu)
                  /\ Fits(T(9), report.cracking_time.offline_gpu)
                  /\ Fits(T(12), report.cracking_time.cloud_cracking)

\* 'Qwerty12' (62^8 combinations) was analysed: 692351 years marked as
\* centuries online, 6 years, 2 days and 3 minutes at the faster rates; and
\* format_time was given exactly 60 seconds and answered 1 minutes
C25_Witness ==
    /\ last.password = <<81,119,101,114,116,121,49,50>>
    /\ last.outcome.status = "returned"
    /\ last.outcome.report.cracking_time.online_brute_force
         = [n |-> [lead |-> 692351, more |-> 0], unit |-> "years (centuries)"]
    /\ last.outcome.report.cracking_time.offline_cpu
         = [n |-> [lead |-> 6, more |-> 0], unit |-> "years"]
    /\ last.outcome.report.cracking_time.offline_gpu
         = [n |-> [lead |-> 2, more |-> 0], unit |-> "days"]
    /\ last.outcome.report.cracking_time.cloud_cracking
         = [n |-> [lead |-> 3, more |-> 0], unit |-> "minutes"]
    /\ formatted # NoCall
    /\ formatted.seconds = [num |-> <<6,0,0>>, below |-> FALSE, exp10 |-> 1]
    /\ formatted.text = [n |-> [lead |-> 1, more |-> 0], unit |-> "minutes"]

\* C26: a report whose recommendations are the positive message alone has a
\* score of at least 70 and the category 'Strong' or 'Very Strong', also when
\* the reversed password is a dictionary word.
C26_PositiveMeansStrong ==
    (/\ last.password # <<>>
     /\ last.outcome.status = "returned"
     /\ last.outcome.report.recommendations
          = << <<Lit("Password meets most security requirements. Keep it unique and don't reuse it!")>> >>)
        => /\ last.outcome.report.score.h >= 7000
           /\ last.outcome.report.category \in {"Strong", "Very Strong"}

\* '1!C9b$a7x2z5' analysed on the engine whose word list holds it reversed:
\* twelve characters of four classes, the reversed word found, the positive
\* message alone, and the score 74.48, 'Strong'
C26_Witness ==
    /\ last.password = <<49,33,67,57,98,36,97,55,120,50,122,53>>
    /\ checker.dictionary_file = ReversedPath
    /\ last.outcome.status = "returned"
    /\ last.outcome.report.dictionary_check.contains_reversed_word
    /\ Len(last.outcome.report.recommendations) = 1
    /\ last.outcome.report.recommendations[1][1].lit
         = "Password meets most security requirements. Keep it unique and don't reuse it!"
    /\ last.outcome.report.score = [kind |-> "float", h |-> 7448]
    /\ last.outcome.report.category = "Strong"

\* C27: a password whose case-folded form holds none of @ 3 1 0 $ 7 and is in
\* the common-password set or the dictionary is reported with
\* contains_substituted_word true and with that unchanged form as the only
\* entry of substitutions_detected; when it is a common password, the
\* penalties of 15 and 8 leave a dictionary sub-score of 0.
C27_SubstitutedWithoutSubstitution ==
    (last.password # <<>> /\ last.outcome.status = "returned")
        => LET folded == Lower(last.password)
               report == last.outcome.report
               check  == report.dictionary_check
               plain  == \A i \in 1..Len(folded) :
                            folded[i] \notin {64, 51, 49, 48, 36, 55}
               entropy == [n |-> report.length,
                           base |-> report.character_analysis.character_set_size]
           IN  (plain /\ folded \in checker.common_passwords
                                        \cup checker.dictionary_words)
                 => /\ check.contains_substituted_word
                    /\ check.substitutions_detected = <<folded>>
                    /\ folded \in checker.common_passwords
                         => /\ check.is_common_password
                            /\ DictScore(check) = 0
                            /\ report.score.h
                                 = ((LengthScore(report.length)
                                       + DiversityScore(report.character_analysis)
                                       + PatternScore(report.patterns_detected))
                                      * Million + EntropyScore(entropy) + 5000)
                                   \div 10000

\* 'password' analysed without a dictionary: a common password with nothing
\* to substitute, reported as a substituted word, 'password' itself
C27_Witness ==
    /\ last.password = PwPassword
    /\ checker.dictionary_words = {}
    /\ last.outcome.status = "returned"
    /\ last.outcome.report.dictionary_check.is_common_password
    /\ last.outcome.report.dictionary_check.contains_substituted_word
    /\ last.outcome.report.dictionary_check.substitutions_detected = <<PwPassword>>
    /\ DictScore(last.outcome.report.dictionary_check) = 0
    /\ last.outcome.report.score = [kind |-> "float", h |-> 2981]

\* C28: in every non-empty analysis the sum of the five sub-scores lies in
\* 0..100 as it stands, so that the reported score is that sum rounded; a
\* password of ASCII characters only scores at most 96, and a score above 96
\* comes with a non-ASCII character and the diversity 100.
C28_SumWithinBounds ==
    (last.password # <<>> /\ last.outcome.status = "returned")
        => LET report  == last.outcome.report
               chars   == report.character_analysis
               entropy == [n |-> report.length, base |-> chars.character_set_size]
               total_score ==
                   (LengthScore(report.length) + DiversityScore(chars)
                      + DictScore(report.dictionary_check)
                      + PatternScore(report.patterns_detected)) * Million
                   + EntropyScore(entropy)
               ascii   == \A i \in 1..Len(last.password) : last.password[i] <= 127
           IN  /\ total_score >= 0
               /\ total_score <= 100 * Million
               /\ report.score.h * 10000 <= total_score + 5000
               /\ total_score + 5000 < (report.score.h + 1) * 10000
               /\ ascii => report.score.h <= 9600
               /\ report.score.h > 9600 =>
                      (~ascii /\ chars.has_unicode /\ chars.diversity_score = 100)

\* the 22-character password of four ASCII classes was analysed and scored
\* 96; then the same with a non-ASCII last letter, which scores 100: every
\* sub-score at its cap, the sum exactly 100
C28_Witness ==
    /\ remembered.outcome.status = "returned"
    /\ last.outcome.status = "returned"
    /\ remembered.password = PwRandom22
    /\ remembered.outcome.report.character_analysis.diversity_score = 80
    /\ remembered.outcome.report.score = [kind |-> "float", h |-> 9600]
    /\ last.password = [PwRandom22 EXCEPT ![22] = 233]
    /\ last.outcome.report.character_analysis.diversity_score = 100
    /\ last.outcome.report.score = [kind |-> "int", h |-> 10000]

====
